---- MODULE Spec2Model ----
(***************************************************************************)
(* Document lifecycle over two stores (relational records, artifact blobs) *)
(* and the milestone batch invoice generator.                              *)
(*                                                                         *)
(* Every await of the source is one step of the model: the store call it   *)
(* waits for either completes or fails, chosen nondeterministically.       *)
(***************************************************************************)
EXTENDS Integers, Sequences, FiniteSets, TLC

VARIABLES
    blobs,      \* artifact store: the paths of the objects that exist
    expenses,   \* expenses table: expense id -> row
    clock,      \* last value returned by Date.now()
    req,        \* the expense upload request in flight (locals of the handler)
    milestones, \* agreement_payment_milestones joined with their agreement
    items,      \* items table
    invoices,   \* invoices table: invoice id -> row (with its invoice_items)
    nextInvoiceId,     \* the next serial id of the invoices table
    run,        \* the run of processMilestoneInvoices in flight (its locals)
    runsReturned, \* history: number of runs that returned a result normally
    del,        \* the deleteInvoice call in flight (its locals)
    ops,        \* number of operations started so far
    faults,     \* number of store calls that have failed so far
    allOk,      \* history: every operation that has ended so far returned success
    tz,         \* the server's offset from UTC, in hours
    daysPassed, \* midnights that have passed since the first state
    payments,   \* payment records
    reminders,  \* payment reminders
    inv,        \* the invoice service call in flight (its locals)
    pdfContent, \* path of an invoice PDF -> the invoice whose PDF was uploaded to it last
    otps,       \* client_email_otp: the rows in the order of their insertion
    login,      \* the POST /login requests in flight (locals of each)
    verify,     \* the POST /verify-otp requests in flight (locals of each)
    authLog,    \* history: what the client portal login has done, per client
    authOps,    \* number of login and verify-otp requests started so far
    portalAuth, \* the last request through authenticateClientToken and its outcome
    other       \* a second run of processMilestoneInvoices, overlapping the first

expenseVars == <<expenses, clock, req>>
batchVars == <<milestones, items, invoices, nextInvoiceId, run, runsReturned, del>>
envVars == <<tz, daysPassed>>
invoiceVars == <<payments, reminders, inv>>
authVars == <<otps, login, verify, authLog, authOps>>
sideVars == <<authVars, portalAuth, other>>
docVars == <<blobs, expenseVars, batchVars, ops, faults, allOk, envVars, invoiceVars,
             pdfContent>>

(***************************************************************************)
(* Bounds                                                                  *)
(***************************************************************************)
NumExpenses == 2
MaxOps == 3
MaxFaults == 2
MaxDays == 1
MaxInvoiceOps == 2
MaxAuthOps == 4

ExpenseIds == 1..NumExpenses
Users == {1, 2}

\* A store call (record store, artifact store, renderer) completes or fails;
\* at most MaxFaults calls fail in one behaviour.
Outcomes == IF faults < MaxFaults THEN BOOLEAN ELSE {TRUE}

Injected(ok) == faults' = faults + (IF ok THEN 0 ELSE 1)

\* JavaScript truthiness of a string or null column: null and '' are falsy.
NoName == ""
Truthy(s) == s # NoName

(***************************************************************************)
(* Artifact store client (BlobStorageService)                              *)
(***************************************************************************)
BlobPath(prefix, userId, fileName) ==
    prefix \o "/" \o ToString(userId) \o "/" \o fileName

Exists(store, path) == path \in store

\* An upload to an existing path replaces the object: the path stays.
UploadFile(store, path) == store \cup {path}

\* The bytes uploaded to a path replace what the object held before.
UploadedContent(content, path, what) ==
    [q \in (DOMAIN content) \cup {path} |-> IF q = path THEN what ELSE content[q]]

\* Deleting a path that holds no object is not an error.
DeleteFile(store, path) == store \ {path}

(***************************************************************************)
(* Expense rows                                                            *)
(***************************************************************************)
\* The expenses that exist: all of user 1, with a bill number, without one
\* (null), and with one that already ends with '.pdf'.
BillNumbers == <<"B7", NoName, "B8.pdf">>

BillNumberOf(e) == BillNumbers[((e - 1) % Len(BillNumbers)) + 1]

ExpenseOwner(e) == 1

EndsWith(s, suffix) ==
    /\ Len(s) >= Len(suffix)
    /\ SubSeq(s, Len(s) - Len(suffix) + 1, Len(s)) = suffix

\* expense.billNumber || `BILL-${expenseId}`
BillOrDefault(expense, expenseId) ==
    IF Truthy(expense.billNumber) THEN expense.billNumber
    ELSE "BILL-" \o ToString(expenseId)

\* path.extname(originalname) || (pdf ? '.pdf' : image/* ? '.jpg' : '')
FileExtension(file) ==
    IF Truthy(file.extname) THEN file.extname
    ELSE IF file.mimetype = "application/pdf" THEN ".pdf"
    ELSE IF SubSeq(file.mimetype, 1, 6) = "image/" THEN ".jpg"
    ELSE ""

\* Files that pass the multer filter of the attachment route: an allowed
\* MIME type and an allowed, non-empty extension.
AttachmentFiles ==
    { [extname |-> ".png", mimetype |-> "image/png"],
      [extname |-> ".pdf", mimetype |-> "application/pdf"] }

\* `${expense.billNumber || `BILL-${expenseId}`}_${Date.now()}${fileExtension}`
AttachmentFileName(expense, expenseId, now, file) ==
    BillOrDefault(expense, expenseId) \o "_" \o ToString(now) \o FileExtension(file)

\* billNumber ends with '.pdf' ? billNumber : `${billNumber || `BILL-${id}`}.pdf`
ExpensePdfFileName(expense, expenseId) ==
    IF Truthy(expense.billNumber) /\ EndsWith(expense.billNumber, ".pdf")
    THEN expense.billNumber
    ELSE BillOrDefault(expense, expenseId) \o ".pdf"

AttachmentPrefix == "Expense/Uploaded_Documents"
PdfPrefix == "Expense/Generated_pdfs"

\* if (expense.attachmentFileName)
AttachmentOldDeleteNeeded(expense) == Truthy(expense.attachmentFileName)

\* if (expense.expenseFileName && expense.expenseFileName !== fileName)
PdfOldDeleteNeeded(expense, fileName) ==
    Truthy(expense.expenseFileName) /\ expense.expenseFileName # fileName

(***************************************************************************)
(* Milestones, projects, clients                                           *)
(***************************************************************************)
\* The local date of the first state, as a day number.
Today == 10

HoursPerDay == 24

\* UTC offsets a server can run with: west of Greenwich, UTC, east.
TzOffsets == {-5, 0, 5}

\* The server's local date.
LocalDate == Today + daysPassed

\* new Date('YYYY-MM-DD'): a date-only string is midnight UTC of that day.
ParseDate(day) == day * HoursPerDay

\* date.setHours(0, 0, 0, 0): midnight, local time, of the instant's local day.
SetHoursZero(instant, offset) ==
    ((instant + offset) \div HoursPerDay) * HoursPerDay - offset

\* const today = new Date(); today.setHours(0, 0, 0, 0)
TodayMidnight(localDate, offset) == localDate * HoursPerDay - offset

\* The rows of agreement_payment_milestones with the columns the query joins
\* in.  status "null" is the legacy NULL.
MilestoneRows ==
    << [id |-> 1, milestoneDate |-> Today, status |-> "pending", projectId |-> 1,
        userId |-> 1, serviceType |-> "Design", amount |-> 500],
       [id |-> 2, milestoneDate |-> Today, status |-> "null", projectId |-> 2,
        userId |-> 1, serviceType |-> "Audit", amount |-> 300],
       [id |-> 3, milestoneDate |-> Today, status |-> "pending", projectId |-> 3,
        userId |-> 1, serviceType |-> "design", amount |-> 200],
       [id |-> 4, milestoneDate |-> Today + 1, status |-> "pending", projectId |-> 1,
        userId |-> 1, serviceType |-> "Design", amount |-> 100],
       [id |-> 5, milestoneDate |-> Today, status |-> "created", projectId |-> 1,
        userId |-> 1, serviceType |-> "Design", amount |-> 100] >>

MilestoneIds == 1..Len(MilestoneRows)

\* getClientsByProjectId(projectId, userId): project 2 has no client.
ProjectClients(projectId) ==
    CASE projectId = 1 -> <<1, 2>>
      [] projectId = 3 -> <<3>>
      [] OTHER -> <<>>

\* master_clients and projects: client 4 and project 5 are user 2's, every
\* other client and project is user 1's.
ClientOwner(clientId) == IF clientId = 4 THEN 2 ELSE 1
ProjectOwner(projectId) == IF projectId = 5 THEN 2 ELSE 1

IdleRun ==
    [ pc |-> "idle", selected |-> <<>>, mi |-> 0, clients |-> <<>>, ci |-> 0,
      itemId |-> 0, invoice |-> 0, fileName |-> NoName, blobPath |-> NoName,
      calls |-> <<>>, thrown |-> FALSE, after |-> 0, tx |-> FALSE, pdfReleases |-> 0,
      firstId |-> 0,
      result |-> [processed |-> 0, created |-> 0, failed |-> 0, errors |-> <<>>] ]

IdleDel ==
    [ pc |-> "idle", invoiceId |-> 0, userId |-> 0, fileName |-> NoName,
      calls |-> <<>>, error |-> NoName, statusCode |-> 0 ]

\* The locals of a call of createInvoice, updateInvoice, getInvoiceById,
\* getInvoicesByUserId or updateInvoicePdfFilename.  work is the row as the
\* open transaction sees it, paymentsDeleted whether the transaction has
\* deleted the invoice's payments.
IdleInv ==
    [ op |-> "none", pc |-> "idle", invoiceId |-> 0, userId |-> 0, input |-> NoName,
      currentStatus |-> NoName, work |-> NoName, paymentsDeleted |-> FALSE,
      response |-> NoName, error |-> NoName, statusCode |-> 0, mailed |-> FALSE ]

(***************************************************************************)
(* The request in flight.  calls is the log of the store calls the handler *)
(* has awaited so far, each with its outcome.                              *)
(***************************************************************************)
IdleReq ==
    [ op |-> "none", pc |-> "idle", expenseId |-> 0, userId |-> 0,
      expense |-> NoName, fileName |-> NoName,
      blobPath |-> NoName, calls |-> <<>>, error |-> NoName ]

ReqFree == req.pc \in {"idle", "done"}
RunFree == run.pc \in {"idle", "done"}
DelFree == del.pc \in {"idle", "done"}

\* Operations are issued one after another: the next one starts when the
\* previous one has ended (its locals are gone by then), and MaxOps of them
\* are followed.
InvFree == inv.pc \in {"idle", "done"}

CanStart == ReqFree /\ RunFree /\ DelFree /\ InvFree /\ ops < MaxOps

Called(r, what) == \E i \in 1..Len(r.calls) : r.calls[i] = what

Prefix(r) == IF r.op = "attachment" THEN AttachmentPrefix ELSE PdfPrefix

\* The file name the row holds in the column the operation replaces.
CurrentName(row, op) ==
    IF op = "attachment" THEN row.attachmentFileName ELSE row.expenseFileName

OldDeleteNeeded(r) ==
    IF r.op = "attachment" THEN AttachmentOldDeleteNeeded(r.expense)
    ELSE PdfOldDeleteNeeded(r.expense, r.fileName)

\* The handler ends by next(error): the error is surfaced to the caller.
Fail(r, call, error) ==
    [r EXCEPT !.pc = "done", !.calls = Append(@, call), !.error = error]

(***************************************************************************)
(* POST /:id/attachment and POST /:id/pdf                                  *)
(***************************************************************************)
\* getExpenseById, then the file name is computed.
AttachmentGetExpense(e, u, file, ok) ==
    /\ Injected(ok)
    /\ CanStart
    /\ ops' = ops + 1
    /\ LET r0 == [IdleReq EXCEPT !.op = "attachment", !.expenseId = e,
                                 !.userId = u]
       IN IF ok /\ expenses[e].userId = u
          THEN /\ clock' = clock + 1
               /\ req' = [r0 EXCEPT !.pc = "upload",
                            !.calls = <<"getExpense:ok">>,
                            !.expense = expenses[e],
                            !.fileName = AttachmentFileName(expenses[e], e, clock', file)]
               /\ UNCHANGED allOk
          ELSE /\ req' = Fail(r0, "getExpense:fail", "getExpense")
               /\ allOk' = FALSE
               /\ UNCHANGED clock
    /\ run' = IdleRun /\ del' = IdleDel
    /\ UNCHANGED <<blobs, expenses, milestones, items, invoices, nextInvoiceId, runsReturned>>
    /\ inv' = IdleInv
    /\ UNCHANGED <<envVars, pdfContent, sideVars, payments, reminders>>

PdfGetExpense(e, u, ok) ==
    /\ Injected(ok)
    /\ CanStart
    /\ ops' = ops + 1
    /\ LET r0 == [IdleReq EXCEPT !.op = "pdf", !.expenseId = e,
                                 !.userId = u]
       IN IF ok /\ expenses[e].userId = u
          THEN /\ req' = [r0 EXCEPT !.pc = "upload",
                            !.calls = <<"getExpense:ok">>,
                            !.expense = expenses[e],
                            !.fileName = ExpensePdfFileName(expenses[e], e)]
               /\ UNCHANGED allOk
          ELSE /\ req' = Fail(r0, "getExpense:fail", "getExpense")
               /\ allOk' = FALSE
    /\ run' = IdleRun /\ del' = IdleDel
    /\ UNCHANGED <<blobs, expenses, clock, milestones, items, invoices, nextInvoiceId,
                   runsReturned>>
    /\ inv' = IdleInv
    /\ UNCHANGED <<envVars, pdfContent, sideVars, payments, reminders>>

\* BlobStorageService.uploadFile(...); then the old object's delete or the
\* row patch is issued.
ExpenseUpload(ok) ==
    /\ Injected(ok)
    /\ req.pc = "upload"
    /\ LET path == BlobPath(Prefix(req), req.userId, req.fileName)
       IN IF ok
          THEN /\ blobs' = UploadFile(blobs, path)
               /\ req' = [req EXCEPT !.blobPath = path,
                            !.calls = Append(@, "upload:ok"),
                            !.pc = IF OldDeleteNeeded(req) THEN "deleteOld" ELSE "patch"]
               /\ UNCHANGED allOk
          ELSE /\ req' = Fail(req, "upload:fail", "upload")
               /\ allOk' = FALSE
               /\ UNCHANGED blobs
    /\ UNCHANGED <<expenses, clock, ops, batchVars>>
    /\ UNCHANGED <<envVars, pdfContent, sideVars, invoiceVars>>

\* await BlobStorageService.deleteFile(oldBlobPath), outside any try block.
ExpenseDeleteOld(ok) ==
    /\ Injected(ok)
    /\ req.pc = "deleteOld"
    /\ LET oldBlobPath == BlobPath(Prefix(req), req.userId, CurrentName(req.expense, req.op))
       IN IF ok
          THEN /\ blobs' = DeleteFile(blobs, oldBlobPath)
               /\ req' = [req EXCEPT !.calls = Append(@, "deleteOld:ok"), !.pc = "patch"]
               /\ UNCHANGED allOk
          ELSE /\ req' = Fail(req, "deleteOld:fail", "deleteOld")
               /\ allOk' = FALSE
               /\ UNCHANGED blobs
    /\ UNCHANGED <<expenses, clock, ops, batchVars>>
    /\ UNCHANGED <<envVars, pdfContent, sideVars, invoiceVars>>

\* updateExpenseAttachmentFilename / updateExpensePdfFilename
PatchRow(row, op, fileName) ==
    IF op = "attachment" THEN [row EXCEPT !.attachmentFileName = fileName]
    ELSE [row EXCEPT !.expenseFileName = fileName]

ExpensePatch(ok) ==
    /\ Injected(ok)
    /\ req.pc = "patch"
    /\ IF ok
       THEN /\ expenses' = [expenses EXCEPT
                              ![req.expenseId] = PatchRow(@, req.op, req.fileName)]
            /\ req' = [req EXCEPT !.calls = Append(@, "patch:ok"), !.pc = "done"]
       ELSE /\ req' = [req EXCEPT !.calls = Append(@, "patch:fail"), !.pc = "rollback"]
            /\ UNCHANGED expenses
    /\ UNCHANGED <<blobs, clock, allOk, ops, batchVars>>
    /\ UNCHANGED <<envVars, pdfContent, sideVars, invoiceVars>>

\* catch (error) { await BlobStorageService.deleteFile(blobPath); throw error; }
ExpenseRollback(ok) ==
    /\ Injected(ok)
    /\ req.pc = "rollback"
    /\ IF ok
       THEN /\ blobs' = DeleteFile(blobs, req.blobPath)
            /\ req' = Fail(req, "rollback:ok", "patch")
       ELSE /\ req' = Fail(req, "rollback:fail", "rollback")
            /\ UNCHANGED blobs
    /\ allOk' = FALSE
    /\ UNCHANGED <<expenses, clock, ops, batchVars>>
    /\ UNCHANGED <<envVars, pdfContent, sideVars, invoiceVars>>

(***************************************************************************)
(* itemService and getOrCreateItemByName                                   *)
(***************************************************************************)
UpperCase == "ABCDEFGHIJKLMNOPQRSTUVWXYZ"
LowerCase == "abcdefghijklmnopqrstuvwxyz"

LowerChar(c) ==
    IF \E i \in 1..Len(UpperCase) : SubSeq(UpperCase, i, i) = c
    THEN LET i == CHOOSE j \in 1..Len(UpperCase) : SubSeq(UpperCase, j, j) = c
         IN SubSeq(LowerCase, i, i)
    ELSE c

RECURSIVE ToLowerCase(_)
ToLowerCase(s) ==
    IF Len(s) = 0 THEN ""
    ELSE LowerChar(SubSeq(s, 1, 1)) \o ToLowerCase(SubSeq(s, 2, Len(s)))

\* The comparison as it would be without toLowerCase().
SameItemNameExact(a, b) == a = b

\* item.name.toLowerCase() === itemName.toLowerCase()
SameItemName(a, b) == ToLowerCase(a) = ToLowerCase(b)

\* items.find(...) over getItemsByUserId(userId)
MatchingItems(table, userId, itemName) ==
    {it \in table : it.userId = userId /\ SameItemName(it.name, itemName)}

\* The item table after getOrCreateItemByName, and the id it returns.
ItemsAfterGetOrCreate(table, userId, itemName) ==
    IF MatchingItems(table, userId, itemName) # {} THEN table
    ELSE table \cup {[id |-> Cardinality(table) + 1, userId |-> userId, name |-> itemName]}

GetOrCreateItemId(table, userId, itemName) ==
    LET found == MatchingItems(table, userId, itemName)
    IN IF found # {}
       THEN (CHOOSE it \in found : \A o \in found : it.id <= o.id).id
       ELSE Cardinality(table) + 1

(***************************************************************************)
(* createInvoice                                                           *)
(***************************************************************************)
RECURSIVE ItemsTotal(_)
ItemsTotal(lines) ==
    IF lines = <<>> THEN 0
    ELSE Head(lines).quantity * Head(lines).unitPrice + ItemsTotal(Tail(lines))

\* Amounts of 0 are falsy: `invoiceData.subTotalAmount || 0`.
AmountsFromItems(data) == data.items # <<>> /\ data.subTotalAmount = 0

SubTotalOf(data) ==
    IF AmountsFromItems(data) THEN ItemsTotal(data.items) ELSE data.subTotalAmount

TotalOf(data) ==
    IF AmountsFromItems(data) /\ data.totalAmount = 0
    THEN IF data.gst > 0
         THEN SubTotalOf(data) + (SubTotalOf(data) * data.gst) \div 100
         ELSE SubTotalOf(data)
    ELSE data.totalAmount

\* dueDateObj < today ? 'overdue' : 'pending'
InitialStatus(dueDateObj, today) == IF dueDateObj < today THEN "overdue" ELSE "pending"

\* The status createInvoice and updateInvoice derive from a due date.
StatusByDueDate(dueDate) ==
    InitialStatus(SetHoursZero(ParseDate(dueDate), tz), TodayMidnight(LocalDate, tz))

\* The fourth parameter of the INSERT: invoiceData.invoiceNumber || null.  The
\* row holds, and RETURNING gives back, what the INSERT is passed.
InvoiceNumberOf(data) ==
    IF Truthy(data.invoiceNumber) THEN data.invoiceNumber ELSE NoName

\* The checks made inside the transaction: user, client, project, items.
CreateInvoiceChecks(data, table) ==
    /\ data.userId \in Users
    /\ ClientOwner(data.clientId) = data.userId
    /\ (data.projectId # 0 => ProjectOwner(data.projectId) = data.userId)
    /\ \A i \in 1..Len(data.items) :
          \E it \in table : it.id = data.items[i].itemsId /\ it.userId = data.userId

NewInvoiceRow(id, data) ==
    [ userId |-> data.userId, clientId |-> data.clientId, projectId |-> data.projectId,
      invoiceNumber |-> InvoiceNumberOf(data),
      invoiceDate |-> data.invoiceDate, dueDate |-> data.dueDate,
      subTotalAmount |-> SubTotalOf(data), gst |-> data.gst,
      totalAmount |-> TotalOf(data),
      status |-> StatusByDueDate(data.dueDate),
      paymentReminderRepetition |-> data.paymentReminderRepetition,
      paymentTerms |-> data.paymentTerms,
      invoiceFileName |-> NoName, items |-> data.items ]

\* The insert as it would be if it stored a file name before any PDF exists.
InsertInvoiceNamed(table, id, data) ==
    [i \in (DOMAIN table) \cup {id} |->
        IF i = id THEN [NewInvoiceRow(id, data) EXCEPT !.invoiceFileName = "invoice.pdf"]
        ELSE table[i]]

InsertInvoice(table, id, data) ==
    [i \in (DOMAIN table) \cup {id} |-> IF i = id THEN NewInvoiceRow(id, data) ELSE table[i]]

(***************************************************************************)
(* processMilestoneInvoices                                                *)
(***************************************************************************)
\* The WHERE clause as it would be without the status condition.
IsDueAnyStatus(row) == row.milestoneDate = LocalDate

\* WHERE "milestoneDate" = today AND (status = 'pending' OR status IS NULL)
\* ORDER BY id
IsDue(row) == row.milestoneDate = LocalDate /\ row.status \in {"pending", "null"}

DueMilestones(table) == SelectSeq(table, IsDue)

Milestone(r) == r.selected[r.mi]
ProjectClient(r) == r.clients[r.ci]

\* The Date the database driver builds from a DATE column: midnight, local
\* time, of that day.
ParsedDateColumn(day, offset) == day * HoursPerDay - offset

\* date.toISOString().split('T')[0]: the day, in UTC, of an instant.
ToISODate(instant) == instant \div HoursPerDay

\* typeof milestoneDate === 'string' ? milestoneDate
\*    : new Date(milestoneDate).toISOString().split('T')[0]
\* The column arrives as text, which is kept, or as a Date, which is formatted
\* in UTC.
InvoiceDateStrs(day, offset) == {day, ToISODate(ParsedDateColumn(day, offset))}

\* The invoice data built for one client of the milestone.
InvoiceData(milestone, clientId, itemId, invoiceDateStr) ==
    [ userId |-> milestone.userId, clientId |-> clientId,
      projectId |-> milestone.projectId, invoiceNumber |-> NoName,
      invoiceDate |-> invoiceDateStr, dueDate |-> invoiceDateStr,
      subTotalAmount |-> milestone.amount, gst |-> 0,
      totalAmount |-> milestone.amount,
      items |-> << [itemsId |-> itemId, quantity |-> 1, unitPrice |-> milestone.amount] >>,
      paymentReminderRepetition |-> NoName, paymentTerms |-> "full" ]

\* result.failed++; result.errors.push({ milestoneId, error })
RecordError(r, error) ==
    [r EXCEPT !.result.failed = @ + 1,
              !.result.errors = Append(@, [milestoneId |-> Milestone(r).id, error |-> error])]

\* The for loop over the milestones: the next one, or `return result`.
NextMilestone(r) ==
    IF r.mi < Len(r.selected)
    THEN [r EXCEPT !.mi = @ + 1, !.result.processed = @ + 1, !.pc = "getClients",
                   !.clients = <<>>, !.ci = 0, !.itemId = 0, !.invoice = 0,
                   !.fileName = NoName, !.blobPath = NoName, !.calls = <<>>]
    ELSE [r EXCEPT !.pc = "done"]

\* The for loop over the clients: the next one, or the status update.
NextClient(r) ==
    IF r.ci < Len(r.clients)
    THEN [r EXCEPT !.ci = @ + 1, !.pc = "createInvoice"]
    ELSE [r EXCEPT !.pc = "updateStatus"]

Call(r, what) == [r EXCEPT !.calls = Append(@, what)]

\* The locals of one iteration of the client loop, at its start.
StartClient(r) ==
    [r EXCEPT !.invoice = 0, !.fileName = NoName, !.blobPath = NoName, !.calls = <<>>]

\* invoicesCreatedForMilestone++; result.created++
ClientCreated(r) == NextClient([Call(r, "created") EXCEPT !.result.created = @ + 1])

\* The per-client catch: result.failed++, the error is recorded.
ClientFailed(r) ==
    NextClient(RecordError(Call(r, "failed"), "Failed to create invoice for client"))

\* The inner catch as it would be if it rethrew to the per-client catch.
AfterPdfErrorRethrown(r) == ClientFailed(r)

\* catch (pdfError) { console.error(...) }: the error of generateInvoicePdf,
\* uploadFile or updateInvoicePdfFilename is logged, and the client goes on to
\* be counted as created.
AfterPdfError(r) == ClientCreated(r)

Returned(r) == IF r.pc = "done" /\ ~r.thrown THEN 1 ELSE 0

\* The run as it would be if the fatal catch returned the empty result instead
\* of throwing.
BatchQuerySwallowed(ok) ==
    /\ Injected(ok)
    /\ CanStart
    /\ ops' = ops + 1
    /\ IF ok
       THEN LET r0 == [IdleRun EXCEPT !.selected = DueMilestones(milestones),
                                      !.after = runsReturned,
                                      !.firstId = nextInvoiceId]
            IN run' = NextMilestone(r0)
       ELSE run' = [IdleRun EXCEPT !.pc = "done", !.after = runsReturned]
    /\ runsReturned' = runsReturned + Returned(run')
    /\ allOk' = (allOk /\ ok)
    /\ req' = IdleReq /\ del' = IdleDel
    /\ UNCHANGED <<blobs, milestones, items, invoices, nextInvoiceId, expenses, clock>>
    /\ inv' = IdleInv
    /\ UNCHANGED <<envVars, pdfContent, sideVars, payments, reminders>>

\* pool.connect(), the query for the due milestones, and the first milestone.
BatchQuery(ok) ==
    /\ Injected(ok)
    /\ CanStart
    /\ ops' = ops + 1
    /\ IF ok
       THEN LET r0 == [IdleRun EXCEPT !.selected = DueMilestones(milestones),
                                      !.after = runsReturned,
                                      !.firstId = nextInvoiceId]
            IN run' = NextMilestone(r0)
       ELSE run' = [IdleRun EXCEPT !.pc = "done", !.thrown = TRUE, !.after = runsReturned]
    /\ runsReturned' = runsReturned + Returned(run')
    /\ allOk' = (allOk /\ ok)
    /\ req' = IdleReq /\ del' = IdleDel
    /\ UNCHANGED <<blobs, milestones, items, invoices, nextInvoiceId, expenses, clock>>
    /\ inv' = IdleInv
    /\ UNCHANGED <<envVars, pdfContent, sideVars, payments, reminders>>

\* getClientsByProjectId(projectId, userId)
BatchGetClients(ok) ==
    /\ Injected(ok)
    /\ run.pc = "getClients"
    /\ IF ~ok
       THEN run' = NextMilestone(RecordError(run, "getClients failed"))
       ELSE IF ProjectClients(Milestone(run).projectId) = <<>>
       THEN run' = NextMilestone(RecordError(run, "No clients found for project"))
       ELSE run' = [run EXCEPT !.clients = ProjectClients(Milestone(run).projectId),
                               !.pc = "getItem"]
    /\ runsReturned' = runsReturned + Returned(run')
    /\ UNCHANGED <<blobs, milestones, items, invoices, nextInvoiceId, del, ops, allOk, expenseVars>>
    /\ UNCHANGED <<envVars, pdfContent, sideVars, invoiceVars>>

\* getOrCreateItemByName(userId, serviceType)
BatchGetItem(ok) ==
    /\ Injected(ok)
    /\ run.pc = "getItem"
    /\ IF ok
       THEN /\ items' = ItemsAfterGetOrCreate(items, Milestone(run).userId,
                                              Milestone(run).serviceType)
            /\ run' = NextClient([run EXCEPT !.itemId =
                         GetOrCreateItemId(items, Milestone(run).userId,
                                           Milestone(run).serviceType)])
       ELSE /\ run' = NextMilestone(RecordError(run, "Failed to get/create item"))
            /\ UNCHANGED items
    /\ runsReturned' = runsReturned + Returned(run')
    /\ UNCHANGED <<blobs, milestones, invoices, nextInvoiceId, del, ops, allOk, expenseVars>>
    /\ UNCHANGED <<envVars, pdfContent, sideVars, invoiceVars>>

\* createInvoice as it would be if it returned its invoice without COMMIT.
TxAfterCreateInvoiceUncommitted(ok) == ok

\* Whether the transaction of createInvoice is open when the call ends: it
\* has issued COMMIT when it returns and ROLLBACK when it throws.
TxAfterCreateInvoice(ok) == FALSE

\* createInvoice(invoiceData): the row and its items are committed together,
\* or the transaction is rolled back and the call throws.
BatchCreateInvoice(ok) ==
    /\ Injected(ok)
    /\ run.pc = "createInvoice"
    /\ \E invoiceDateStr \in InvoiceDateStrs(Milestone(run).milestoneDate, tz) :
          LET data == InvoiceData(Milestone(run), ProjectClient(run), run.itemId,
                                  invoiceDateStr)
          IN IF ok /\ CreateInvoiceChecks(data, items)
             THEN /\ invoices' = InsertInvoice(invoices, nextInvoiceId, data)
                  /\ nextInvoiceId' = nextInvoiceId + 1
                  /\ run' = [Call(StartClient(run), "createInvoice:ok") EXCEPT
                                !.invoice = nextInvoiceId, !.pc = "render",
                                !.tx = TxAfterCreateInvoice(TRUE)]
             ELSE /\ run' = ClientFailed([Call(StartClient(run), "createInvoice:fail") EXCEPT
                                            !.tx = TxAfterCreateInvoice(FALSE)])
                  /\ UNCHANGED <<invoices, nextInvoiceId>>
    /\ UNCHANGED <<blobs, milestones, items, runsReturned, del, ops, allOk, expenseVars>>
    /\ UNCHANGED <<envVars, pdfContent, sideVars, invoiceVars>>

\* generateInvoicePdf(invoice.id, userId) returns
\*   new Promise(async (resolve, reject) => { const client = await pool.connect();
\*     try { queries; client.release(); drawing; doc.end() }
\*     catch (error) { client.release(); reject(error) } })
\* "ok":     the document ends and the promise resolves with the bytes;
\* "reject": a query fails or finds no row before the release, so the catch
\*           releases the connection once and rejects;
\* "hang":   pool.connect() rejects outside the try block, or the drawing code
\*           throws after the release, so that the second release throws inside
\*           the catch block: the async executor's own promise rejects, reject
\*           is never called and the returned promise never settles.
RenderOutcomes == IF faults < MaxFaults THEN {"ok", "reject", "hang"} ELSE {"ok"}

\* A template literal renders a null column as the text 'null'.
TemplateText(s) == IF Truthy(s) THEN s ELSE "null"

\* const fileName = `${invoice.invoiceNumber}.pdf`
BatchFileName(invoice) == TemplateText(invoice.invoiceNumber) \o ".pdf"

InvoicePrefix == "Invoices"

\* The number of client.release() calls generateInvoicePdf makes on the
\* connection it acquired: one before the drawing ("ok"), one in the catch
\* block ("reject"); when the promise hangs either pool.connect() rejected and
\* there is no connection, or the drawing threw after the release and the
\* catch block releases a second time.
PdfReleases(outcome) == IF outcome = "hang" THEN {0, 2} ELSE {1}

BatchRender(outcome) ==
    /\ Injected(outcome = "ok")
    /\ run.pc = "render"
    /\ \E n \in PdfReleases(outcome) :
          LET r == [run EXCEPT !.pdfReleases = n]
          IN run' = CASE outcome = "ok" ->
                          [Call(r, "render:ok") EXCEPT
                              !.fileName = BatchFileName(invoices[run.invoice]),
                              !.pc = "upload"]
                     [] outcome = "reject" -> AfterPdfError(Call(r, "render:fail"))
                     [] outcome = "hang" -> [Call(r, "render:hang") EXCEPT !.pc = "hung"]
    /\ UNCHANGED <<blobs, milestones, items, invoices, nextInvoiceId, runsReturned, del,
                   ops, allOk, expenseVars>>
    /\ UNCHANGED <<envVars, pdfContent, sideVars, invoiceVars>>

\* The upload as it would be without `await`: the loop goes on to the patch
\* while the upload has only been started.
BatchUploadNotAwaited(ok) ==
    /\ Injected(ok)
    /\ run.pc = "upload"
    /\ run' = [Call(run, "upload:started") EXCEPT
                  !.blobPath = BlobPath(InvoicePrefix, Milestone(run).userId, run.fileName),
                  !.pc = "patch"]
    /\ UNCHANGED <<blobs, pdfContent, sideVars, milestones, items, invoices, nextInvoiceId,
                   runsReturned, del, ops, allOk, expenseVars>>
    /\ UNCHANGED <<envVars, invoiceVars>>

\* BlobStorageService.uploadFile(pdfBuffer, fileName, FileType.INVOICE, userId, ...)
BatchUpload(ok) ==
    /\ Injected(ok)
    /\ run.pc = "upload"
    /\ LET path == BlobPath(InvoicePrefix, Milestone(run).userId, run.fileName)
       IN IF ok
          THEN /\ blobs' = UploadFile(blobs, path)
               /\ pdfContent' = UploadedContent(pdfContent, path, run.invoice)
               /\ run' = [Call(run, "upload:ok") EXCEPT !.blobPath = path, !.pc = "patch"]
          ELSE /\ run' = AfterPdfError(Call(run, "upload:fail"))
               /\ UNCHANGED <<blobs, pdfContent>>
    /\ UNCHANGED <<milestones, items, invoices, nextInvoiceId, runsReturned, del,
                   ops, allOk, expenseVars>>
    /\ UNCHANGED <<envVars, invoiceVars, sideVars>>

\* UPDATE invoices SET invoice_file_name = $1 WHERE id = $2 AND "userId" = $3
\* The lookup as it would be with WHERE id = $1 alone.
RowVisibleAnyOwner(table, id, userId) == id \in DOMAIN table
RowVisible(table, id, userId) == id \in DOMAIN table /\ table[id].userId = userId

UpdateInvoicePdfFilename(table, id, fileName) ==
    [table EXCEPT ![id].invoiceFileName = fileName]

BatchPatch(ok) ==
    /\ Injected(ok)
    /\ run.pc = "patch"
    /\ IF ok /\ RowVisible(invoices, run.invoice, Milestone(run).userId)
       THEN /\ invoices' = UpdateInvoicePdfFilename(invoices, run.invoice, run.fileName)
            /\ run' = ClientCreated(Call(run, "patch:ok"))
       ELSE /\ run' = AfterPdfError(Call(run, "patch:fail"))
            /\ UNCHANGED invoices
    /\ UNCHANGED <<blobs, milestones, items, nextInvoiceId, runsReturned, del,
                   ops, allOk, expenseVars>>
    /\ UNCHANGED <<envVars, pdfContent, sideVars, invoiceVars>>

\* UPDATE agreement_payment_milestones SET status = 'created' WHERE id = $1;
\* a failure is caught by the per-milestone catch.
BatchUpdateStatus(ok) ==
    /\ Injected(ok)
    /\ run.pc = "updateStatus"
    /\ IF ok
       THEN /\ milestones' = [milestones EXCEPT ![Milestone(run).id].status = "created"]
            /\ run' = NextMilestone(run)
       ELSE /\ run' = NextMilestone(RecordError(run, "status update failed"))
            /\ UNCHANGED milestones
    /\ runsReturned' = runsReturned + Returned(run')
    /\ UNCHANGED <<blobs, items, invoices, nextInvoiceId, del, ops, allOk, expenseVars>>
    /\ UNCHANGED <<envVars, pdfContent, sideVars, invoiceVars>>

(***************************************************************************)
(* A second call of processMilestoneInvoices, started while the first is   *)
(* in flight (a second scheduler tick or a second server instance).  Its   *)
(* locals are `other`; it runs the same statements on the same tables.     *)
(***************************************************************************)
RunInFlight(r) == r.pc \notin {"idle", "done"}

OtherFrame == UNCHANGED <<run, del, ops, allOk, expenseVars, envVars, invoiceVars,
                          authVars, portalAuth>>

\* pool.connect(), the query for the due milestones, and the first milestone.
OtherQuery(ok) ==
    /\ Injected(ok)
    /\ other.pc = "idle" /\ RunInFlight(run)
    /\ IF ok
       THEN other' = NextMilestone([IdleRun EXCEPT !.selected = DueMilestones(milestones),
                                                   !.after = runsReturned,
                                                   !.firstId = nextInvoiceId])
       ELSE other' = [IdleRun EXCEPT !.pc = "done", !.thrown = TRUE, !.after = runsReturned]
    /\ runsReturned' = runsReturned + Returned(other')
    /\ UNCHANGED <<blobs, pdfContent, milestones, items, invoices, nextInvoiceId>>
    /\ OtherFrame

\* getClientsByProjectId(projectId, userId)
OtherGetClients(ok) ==
    /\ Injected(ok)
    /\ other.pc = "getClients"
    /\ IF ~ok
       THEN other' = NextMilestone(RecordError(other, "getClients failed"))
       ELSE IF ProjectClients(Milestone(other).projectId) = <<>>
       THEN other' = NextMilestone(RecordError(other, "No clients found for project"))
       ELSE other' = [other EXCEPT !.clients = ProjectClients(Milestone(other).projectId),
                                   !.pc = "getItem"]
    /\ runsReturned' = runsReturned + Returned(other')
    /\ UNCHANGED <<blobs, pdfContent, milestones, items, invoices, nextInvoiceId>>
    /\ OtherFrame

\* getOrCreateItemByName(userId, serviceType)
OtherGetItem(ok) ==
    /\ Injected(ok)
    /\ other.pc = "getItem"
    /\ IF ok
       THEN /\ items' = ItemsAfterGetOrCreate(items, Milestone(other).userId,
                                              Milestone(other).serviceType)
            /\ other' = NextClient([other EXCEPT !.itemId =
                           GetOrCreateItemId(items, Milestone(other).userId,
                                             Milestone(other).serviceType)])
       ELSE /\ other' = NextMilestone(RecordError(other, "Failed to get/create item"))
            /\ UNCHANGED items
    /\ runsReturned' = runsReturned + Returned(other')
    /\ UNCHANGED <<blobs, pdfContent, milestones, invoices, nextInvoiceId>>
    /\ OtherFrame

\* createInvoice(invoiceData)
OtherCreateInvoice(ok) ==
    /\ Injected(ok)
    /\ other.pc = "createInvoice"
    /\ \E invoiceDateStr \in InvoiceDateStrs(Milestone(other).milestoneDate, tz) :
          LET data == InvoiceData(Milestone(other), ProjectClient(other), other.itemId,
                                  invoiceDateStr)
          IN IF ok /\ CreateInvoiceChecks(data, items)
             THEN /\ invoices' = InsertInvoice(invoices, nextInvoiceId, data)
                  /\ nextInvoiceId' = nextInvoiceId + 1
                  /\ other' = [Call(StartClient(other), "createInvoice:ok") EXCEPT
                                  !.invoice = nextInvoiceId, !.pc = "render",
                                  !.tx = TxAfterCreateInvoice(TRUE)]
             ELSE /\ other' = ClientFailed([Call(StartClient(other), "createInvoice:fail")
                                               EXCEPT !.tx = TxAfterCreateInvoice(FALSE)])
                  /\ UNCHANGED <<invoices, nextInvoiceId>>
    /\ UNCHANGED <<blobs, pdfContent, milestones, items, runsReturned>>
    /\ OtherFrame

\* generateInvoicePdf(invoice.id, userId)
OtherRender(outcome) ==
    /\ Injected(outcome = "ok")
    /\ other.pc = "render"
    /\ \E n \in PdfReleases(outcome) :
          LET r == [other EXCEPT !.pdfReleases = n]
          IN other' = CASE outcome = "ok" ->
                            [Call(r, "render:ok") EXCEPT
                                !.fileName = BatchFileName(invoices[other.invoice]),
                                !.pc = "upload"]
                       [] outcome = "reject" -> AfterPdfError(Call(r, "render:fail"))
                       [] outcome = "hang" -> [Call(r, "render:hang") EXCEPT !.pc = "hung"]
    /\ UNCHANGED <<blobs, pdfContent, milestones, items, invoices, nextInvoiceId,
                   runsReturned>>
    /\ OtherFrame

\* BlobStorageService.uploadFile(pdfBuffer, fileName, FileType.INVOICE, userId, ...)
OtherUpload(ok) ==
    /\ Injected(ok)
    /\ other.pc = "upload"
    /\ LET path == BlobPath(InvoicePrefix, Milestone(other).userId, other.fileName)
       IN IF ok
          THEN /\ blobs' = UploadFile(blobs, path)
               /\ pdfContent' = UploadedContent(pdfContent, path, other.invoice)
               /\ other' = [Call(other, "upload:ok") EXCEPT !.blobPath = path,
                                                            !.pc = "patch"]
          ELSE /\ other' = AfterPdfError(Call(other, "upload:fail"))
               /\ UNCHANGED <<blobs, pdfContent>>
    /\ UNCHANGED <<milestones, items, invoices, nextInvoiceId, runsReturned>>
    /\ OtherFrame

\* updateInvoicePdfFilename(invoice.id, userId, fileName)
OtherPatch(ok) ==
    /\ Injected(ok)
    /\ other.pc = "patch"
    /\ IF ok /\ RowVisible(invoices, other.invoice, Milestone(other).userId)
       THEN /\ invoices' = UpdateInvoicePdfFilename(invoices, other.invoice, other.fileName)
            /\ other' = ClientCreated(Call(other, "patch:ok"))
       ELSE /\ other' = AfterPdfError(Call(other, "patch:fail"))
            /\ UNCHANGED invoices
    /\ UNCHANGED <<blobs, pdfContent, milestones, items, nextInvoiceId, runsReturned>>
    /\ OtherFrame

\* UPDATE agreement_payment_milestones SET status = 'created' WHERE id = $1
OtherUpdateStatus(ok) ==
    /\ Injected(ok)
    /\ other.pc = "updateStatus"
    /\ IF ok
       THEN /\ milestones' = [milestones EXCEPT ![Milestone(other).id].status = "created"]
            /\ other' = NextMilestone(other)
       ELSE /\ other' = NextMilestone(RecordError(other, "status update failed"))
            /\ UNCHANGED milestones
    /\ runsReturned' = runsReturned + Returned(other')
    /\ UNCHANGED <<blobs, pdfContent, items, invoices, nextInvoiceId>>
    /\ OtherFrame

(***************************************************************************)
(* Invoice service: createInvoice, getInvoiceById, getInvoicesByUserId,    *)
(* updateInvoice, updateInvoicePdfFilename                                 *)
(***************************************************************************)
\* A field the caller does not pass.
Undefined == "undefined"

\* The items table when invoices are created by hand: items 1 and 2 are user
\* 1's, item 3 is user 2's.
ExistingItems ==
    { [id |-> 1, userId |-> 1, name |-> "Design"],
      [id |-> 2, userId |-> 1, name |-> "Audit"],
      [id |-> 3, userId |-> 2, name |-> "Design"] }

Line(itemsId) == [itemsId |-> itemsId, quantity |-> 1, unitPrice |-> 100]

\* The line items callers pass: one item of the user, two of them, and one
\* followed by an item of another user.
ItemLines == { <<Line(1)>>, <<Line(1), Line(2)>>, <<Line(1), Line(3)>> }

\* The invoice data callers pass to createInvoice: an owner with a client of
\* theirs, due yesterday, today or tomorrow; a status the caller would like; a
\* reminder repetition; a client of another owner.
CreateInputs ==
    { [ userId |-> u, clientId |-> IF u = 1 THEN 1 ELSE 4, projectId |-> 0,
        invoiceNumber |-> "N" \o ToString(u), invoiceDate |-> Today, dueDate |-> d,
        subTotalAmount |-> 100, gst |-> 0, totalAmount |-> 100, items |-> <<>>,
        paymentReminderRepetition |-> NoName, paymentTerms |-> "full",
        status |-> Undefined ] : u \in Users, d \in {Today - 1, Today, Today + 1} }
    \cup
    { [ userId |-> 1, clientId |-> c, projectId |-> 0,
        invoiceNumber |-> "N1", invoiceDate |-> Today, dueDate |-> Today + 1,
        subTotalAmount |-> 100, gst |-> 0, totalAmount |-> 100, items |-> <<>>,
        paymentReminderRepetition |-> r, paymentTerms |-> "full",
        status |-> st ] :
        c \in {1, 4}, r \in {NoName, "daily"}, st \in {Undefined, "paid"} }
    \cup
    { [ userId |-> 1, clientId |-> 1, projectId |-> 0,
        invoiceNumber |-> "N1", invoiceDate |-> Today, dueDate |-> Today + 1,
        subTotalAmount |-> 100, gst |-> 0, totalAmount |-> 100, items |-> lines,
        paymentReminderRepetition |-> NoName, paymentTerms |-> "full",
        status |-> Undefined ] : lines \in ItemLines }

NoUpdate ==
    [ status |-> Undefined, dueDate |-> 0, clientId |-> 0, projectId |-> 0,
      paymentReminderRepetition |-> Undefined ]

\* The update data callers pass to updateInvoice (dueDate, clientId and
\* projectId 0: not passed).
UpdateInputs ==
    { NoUpdate }
    \cup { [NoUpdate EXCEPT !.status = st] : st \in {"paid", "pending", "overdue", "draft"} }
    \cup { [NoUpdate EXCEPT !.dueDate = d] : d \in {Today - 1, Today, Today + 1} }
    \cup { [NoUpdate EXCEPT !.status = "pending", !.dueDate = Today - 1],
           [NoUpdate EXCEPT !.status = "pending", !.clientId = 4],
           [NoUpdate EXCEPT !.status = "overdue", !.projectId = 5],
           [NoUpdate EXCEPT !.paymentReminderRepetition = "daily"] }

\* The updates tried on invoices of either owner.
AccessUpdateInputs ==
    { [NoUpdate EXCEPT !.status = "pending"], [NoUpdate EXCEPT !.dueDate = Today - 1] }

\* The call ends by throwing an AppError with this message and status code.
InvFail(r, error, statusCode) ==
    [r EXCEPT !.pc = "done", !.error = error, !.statusCode = statusCode]

\* status: dbInvoice.status || 'pending'; the other columns as stored.
MapInvoiceToResponse(id, row) ==
    [ id |-> id, userId |-> row.userId, clientId |-> row.clientId,
      invoiceNumber |-> row.invoiceNumber, dueDate |-> row.dueDate,
      totalAmount |-> row.totalAmount,
      status |-> IF Truthy(row.status) THEN row.status ELSE "pending",
      invoiceFileName |-> row.invoiceFileName ]

\* createPaymentReminders(invoiceId, dueDate, repetition)
CreatePaymentReminders(table, invoiceId, dueDate) ==
    table \cup {[invoiceId |-> invoiceId, dueDate |-> dueDate]}

\* deletePaymentRemindersByInvoiceId(invoiceId)
DeletePaymentReminders(table, invoiceId) == {r \in table : r.invoiceId # invoiceId}

\* deletePaymentsByInvoiceId(invoiceId, userId, client)
DeletePayments(table, invoiceId) == {p \in table : p.invoiceId # invoiceId}

StartInv(op, i, u, input) ==
    [IdleInv EXCEPT !.op = op, !.pc = "started", !.invoiceId = i, !.userId = u,
                    !.input = input]

\* What every step of an invoice service call leaves alone.
InvFrame ==
    /\ allOk' = (allOk /\ inv'.error = NoName)
    /\ UNCHANGED <<expenses, clock, milestones, items, runsReturned, envVars, pdfContent, sideVars>>

\* Calls of the invoice service are issued one after another, MaxInvoiceOps
\* of them are followed.
InvStart ==
    /\ ReqFree /\ RunFree /\ DelFree /\ InvFree
    /\ ops < MaxInvoiceOps
    /\ ops' = ops + 1
    /\ req' = IdleReq /\ run' = IdleRun /\ del' = IdleDel

InvStep == UNCHANGED <<ops, req, run, del>>

\* A payment is recorded against an invoice of the user (payment service).
AddPayment(i, u) ==
    /\ InvStart
    /\ i \in DOMAIN invoices /\ invoices[i].userId = u
    /\ payments' = payments \cup {[invoiceId |-> i, amount |-> invoices[i].totalAmount]}
    /\ inv' = IdleInv
    /\ UNCHANGED <<blobs, expenses, clock, milestones, items, invoices, nextInvoiceId,
                   runsReturned, faults, allOk, envVars, pdfContent, sideVars, reminders>>

\* The day changes while no call is in flight.
Midnight ==
    /\ ReqFree /\ RunFree /\ DelFree /\ InvFree
    /\ daysPassed < MaxDays
    /\ daysPassed' = daysPassed + 1
    /\ UNCHANGED <<blobs, expenseVars, batchVars, ops, faults, allOk, tz, pdfContent, sideVars,
                   invoiceVars>>

\* Item `id` exists and belongs to the user.
ItemVisible(table, id, userId) == \E it \in table : it.id = id /\ it.userId = userId

\* The catch block of createInvoice without the ROLLBACK: what the
\* transaction has written so far stays.
CreateRolledBackNot(table, r) ==
    IF r.pc \in {"insertItem", "commitCreate"}
    THEN [i \in (DOMAIN table) \cup {r.invoiceId} |->
             IF i = r.invoiceId THEN r.work ELSE table[i]]
    ELSE table

\* The invoices table after the catch block's ROLLBACK: nothing the
\* transaction wrote is in it.
CreateRolledBack(table, r) == table

\* The invoices table after COMMIT: the header with the line items inserted.
CreateCommitted(table, r) ==
    [i \in (DOMAIN table) \cup {r.invoiceId} |-> IF i = r.invoiceId THEN r.work ELSE table[i]]

\* createInvoice: BEGIN and the checks of user, client and project.
CreateInvoiceBegin(data, ok) ==
    /\ Injected(ok)
    /\ InvStart
    /\ LET r0 == StartInv("create", nextInvoiceId, data.userId, data)
       IN /\ inv' = IF ~ok THEN InvFail(r0, "Failed to create invoice", 500)
                    ELSE IF data.userId \notin Users THEN InvFail(r0, "User not found", 404)
                    ELSE IF ClientOwner(data.clientId) # data.userId
                    THEN InvFail(r0, "Client not found", 404)
                    ELSE IF data.projectId # 0 /\ ProjectOwner(data.projectId) # data.userId
                    THEN InvFail(r0, "Project not found", 404)
                    ELSE [r0 EXCEPT !.pc = "insertHeader"]
          /\ invoices' = IF inv'.pc = "done" THEN CreateRolledBack(invoices, r0) ELSE invoices
    /\ InvFrame
    /\ UNCHANGED <<blobs, nextInvoiceId, payments, reminders>>

\* INSERT INTO invoices ... RETURNING: the row is written inside the
\* transaction.
CreateInvoiceInsert(ok) ==
    /\ Injected(ok)
    /\ inv.pc = "insertHeader"
    /\ IF ok
       THEN /\ inv' = [inv EXCEPT
                         !.work = [NewInvoiceRow(inv.invoiceId, inv.input) EXCEPT
                                      !.items = <<>>],
                         !.pc = IF inv.input.items # <<>> THEN "insertItem"
                                ELSE "commitCreate"]
            /\ UNCHANGED invoices
       ELSE /\ inv' = InvFail(inv, "Failed to create invoice", 500)
            /\ invoices' = CreateRolledBack(invoices, inv)
    /\ InvStep /\ InvFrame
    /\ UNCHANGED <<blobs, nextInvoiceId, payments, reminders>>

\* One turn of the loop over invoiceData.items: the item is looked up and its
\* invoice_items row inserted.
CreateInvoiceItem(ok) ==
    /\ Injected(ok)
    /\ inv.pc = "insertItem"
    /\ LET item == inv.input.items[Len(inv.work.items) + 1]
       IN IF ok /\ ItemVisible(items, item.itemsId, inv.userId)
          THEN /\ inv' = [inv EXCEPT
                            !.work.items = Append(@, item),
                            !.pc = IF Len(inv.work.items) + 1 = Len(inv.input.items)
                                   THEN "commitCreate" ELSE "insertItem"]
               /\ UNCHANGED invoices
          ELSE /\ inv' = IF ok THEN InvFail(inv, "Item not found", 404)
                         ELSE InvFail(inv, "Failed to create invoice", 500)
               /\ invoices' = CreateRolledBack(invoices, inv)
    /\ InvStep /\ InvFrame
    /\ UNCHANGED <<blobs, nextInvoiceId, payments, reminders>>

\* COMMIT: the row and its items become visible; a failure rolls back.
CreateInvoiceCommit(ok) ==
    /\ Injected(ok)
    /\ inv.pc = "commitCreate"
    /\ IF ok
       THEN /\ invoices' = CreateCommitted(invoices, inv)
            /\ nextInvoiceId' = nextInvoiceId + 1
            /\ inv' = [inv EXCEPT
                         !.response = MapInvoiceToResponse(inv.invoiceId, inv.work),
                         !.pc = IF Truthy(inv.input.paymentReminderRepetition)
                                THEN "createReminders" ELSE "done"]
       ELSE /\ inv' = InvFail(inv, "Failed to create invoice", 500)
            /\ invoices' = CreateRolledBack(invoices, inv)
            /\ UNCHANGED nextInvoiceId
    /\ InvStep /\ InvFrame
    /\ UNCHANGED <<blobs, payments, reminders>>

\* try { await createPaymentReminders(...) } catch { console.error }
CreateInvoiceReminders(ok) ==
    /\ Injected(ok)
    /\ inv.pc = "createReminders"
    /\ reminders' = IF ok
                    THEN CreatePaymentReminders(reminders, inv.invoiceId, inv.input.dueDate)
                    ELSE reminders
    /\ inv' = [inv EXCEPT !.pc = "done"]
    /\ InvStep /\ InvFrame
    /\ UNCHANGED <<blobs, invoices, nextInvoiceId, payments>>

\* getInvoiceById(invoiceId, userId)
GetInvoiceById(i, u, ok) ==
    /\ Injected(ok)
    /\ InvStart
    /\ LET r0 == StartInv("get", i, u, NoName)
       IN inv' = IF ~ok THEN InvFail(r0, "Failed to retrieve invoice", 500)
                 ELSE IF ~RowVisible(invoices, i, u) THEN InvFail(r0, "Invoice not found", 404)
                 ELSE [r0 EXCEPT !.pc = "done",
                                 !.response = MapInvoiceToResponse(i, invoices[i])]
    /\ InvFrame
    /\ UNCHANGED <<blobs, invoices, nextInvoiceId, payments, reminders>>

\* getInvoicesByUserId(userId)
GetInvoicesByUserId(u, ok) ==
    /\ Injected(ok)
    /\ InvStart
    /\ LET r0 == StartInv("list", 0, u, NoName)
       IN inv' = IF ~ok THEN InvFail(r0, "Failed to fetch invoices", 500)
                 ELSE [r0 EXCEPT !.pc = "done",
                          !.response = { MapInvoiceToResponse(i, invoices[i]) :
                                            i \in {j \in DOMAIN invoices :
                                                      invoices[j].userId = u} }]
    /\ InvFrame
    /\ UNCHANGED <<blobs, invoices, nextInvoiceId, payments, reminders>>

\* updateInvoicePdfFilename(invoiceId, userId, fileName), called on its own.
PatchInvoicePdfFilename(i, u, fileName, ok) ==
    /\ Injected(ok)
    /\ InvStart
    /\ LET r0 == StartInv("patchPdf", i, u, fileName)
       IN IF ~ok
          THEN inv' = InvFail(r0, "store error", 500) /\ UNCHANGED invoices
          ELSE IF ~RowVisible(invoices, i, u)
          THEN inv' = InvFail(r0, "Invoice not found", 404) /\ UNCHANGED invoices
          ELSE /\ invoices' = UpdateInvoicePdfFilename(invoices, i, fileName)
               /\ inv' = [r0 EXCEPT !.pc = "done"]
    /\ InvFrame
    /\ UNCHANGED <<blobs, nextInvoiceId, payments, reminders>>

\* currentStatus === 'paid' && updateData.status is 'pending' or 'overdue',
\* as it would be without the test of the current status.
PaymentsDeleteNeededAnyStatus(upd, currentStatus) ==
    upd.status # Undefined /\ upd.status \in {"pending", "overdue"}

\* updateData.status !== undefined && currentStatus === 'paid' &&
\* (updateData.status === 'pending' || updateData.status === 'overdue')
PaymentsDeleteNeeded(upd, currentStatus) ==
    /\ upd.status # Undefined
    /\ currentStatus = "paid"
    /\ upd.status \in {"pending", "overdue"}

\* The test of the automatic status update without the test for 'paid'.
AutoStatusNeededAlsoPaid(upd, updatedStatus) ==
    upd.dueDate # 0 /\ upd.status = Undefined

\* updateData.dueDate !== undefined && updateData.status === undefined, and
\* inside it updatedInvoice.status !== 'paid'
AutoStatusNeeded(upd, updatedStatus) ==
    /\ upd.dueDate # 0 /\ upd.status = Undefined
    /\ updatedStatus # "paid"

\* updateData.paymentReminderRepetition !== undefined || updateData.dueDate !== undefined
RemindersUpdateNeeded(upd) == upd.paymentReminderRepetition # Undefined \/ upd.dueDate # 0

\* The fields the dynamic UPDATE sets.
HasUpdateFields(upd) == upd # NoUpdate

\* The update as it would be without the validation of the status.
ValidStatusAny(status) == TRUE

\* ['paid', 'pending', 'overdue'].includes(updateData.status)
ValidStatus(status) == status \in {"paid", "pending", "overdue"}

\* UPDATE invoices SET <the fields passed> ... RETURNING the row
ApplyUpdate(row, upd) ==
    [row EXCEPT
       !.clientId = IF upd.clientId # 0 THEN upd.clientId ELSE @,
       !.projectId = IF upd.projectId # 0 THEN upd.projectId ELSE @,
       !.dueDate = IF upd.dueDate # 0 THEN upd.dueDate ELSE @,
       !.paymentReminderRepetition =
           IF upd.paymentReminderRepetition # Undefined
           THEN upd.paymentReminderRepetition ELSE @,
       !.status = IF upd.status # Undefined THEN upd.status ELSE @]

\* The catch block: ROLLBACK, then the error is thrown.
UpdateRollback(r, error, statusCode) ==
    [InvFail(r, error, statusCode) EXCEPT !.work = NoName, !.paymentsDeleted = FALSE]

AfterUpdate(r) ==
    IF AutoStatusNeeded(r.input, r.work.status) THEN "autoStatus"
    ELSE IF RemindersUpdateNeeded(r.input) THEN "reminders"
    ELSE "commit"

\* BEGIN; SELECT id, status FROM invoices WHERE id = $1 AND "userId" = $2
UpdateInvoiceSelect(i, u, upd, ok) ==
    /\ Injected(ok)
    /\ InvStart
    /\ LET r0 == StartInv("update", i, u, upd)
       IN inv' = IF ~ok THEN UpdateRollback(r0, "Failed to update invoice", 500)
                 ELSE IF ~RowVisible(invoices, i, u)
                 THEN UpdateRollback(r0, "Invoice not found", 404)
                 ELSE [r0 EXCEPT !.currentStatus = invoices[i].status,
                                 !.work = invoices[i],
                                 !.pc = IF PaymentsDeleteNeeded(upd, invoices[i].status)
                                        THEN "deletePayments" ELSE "checks"]
    /\ InvFrame
    /\ UNCHANGED <<blobs, invoices, nextInvoiceId, payments, reminders>>

\* await deletePaymentsByInvoiceId(invoiceId, userId, client): inside the
\* transaction.
UpdateInvoiceDeletePayments(ok) ==
    /\ Injected(ok)
    /\ inv.pc = "deletePayments"
    /\ inv' = IF ok THEN [inv EXCEPT !.paymentsDeleted = TRUE, !.pc = "checks"]
              ELSE UpdateRollback(inv, "Failed to update invoice", 500)
    /\ InvStep /\ InvFrame
    /\ UNCHANGED <<blobs, invoices, nextInvoiceId, payments, reminders>>

\* The client and project checks, then the list of fields is built: an
\* invalid status and an empty list are rejected.
UpdateInvoiceChecks(ok) ==
    /\ Injected(ok)
    /\ inv.pc = "checks"
    /\ LET upd == inv.input
       IN inv' =
            IF ~ok THEN UpdateRollback(inv, "Failed to update invoice", 500)
            ELSE IF upd.clientId # 0 /\ ClientOwner(upd.clientId) # inv.userId
            THEN UpdateRollback(inv, "Client not found", 404)
            ELSE IF upd.projectId # 0 /\ ProjectOwner(upd.projectId) # inv.userId
            THEN UpdateRollback(inv, "Project not found", 404)
            ELSE IF upd.status # Undefined /\ ~ValidStatus(upd.status)
            THEN UpdateRollback(inv, "Invalid status. Must be one of: paid, pending, overdue",
                                400)
            ELSE IF ~HasUpdateFields(upd)
            THEN UpdateRollback(inv, "No fields to update", 400)
            ELSE [inv EXCEPT !.pc = "update"]
    /\ InvStep /\ InvFrame
    /\ UNCHANGED <<blobs, invoices, nextInvoiceId, payments, reminders>>

\* The dynamic UPDATE ... RETURNING.
UpdateInvoiceUpdate(ok) ==
    /\ Injected(ok)
    /\ inv.pc = "update"
    /\ inv' = IF ok
              THEN LET r1 == [inv EXCEPT !.work = ApplyUpdate(inv.work, inv.input)]
                   IN [r1 EXCEPT !.pc = AfterUpdate(r1)]
              ELSE UpdateRollback(inv, "Failed to update invoice", 500)
    /\ InvStep /\ InvFrame
    /\ UNCHANGED <<blobs, invoices, nextInvoiceId, payments, reminders>>

\* UPDATE invoices SET status = newStatus WHERE id = $2
UpdateInvoiceAutoStatus(ok) ==
    /\ Injected(ok)
    /\ inv.pc = "autoStatus"
    /\ inv' = IF ok
              THEN [inv EXCEPT !.work.status = StatusByDueDate(inv.input.dueDate),
                               !.pc = IF RemindersUpdateNeeded(inv.input)
                                      THEN "reminders" ELSE "commit"]
              ELSE UpdateRollback(inv, "Failed to update invoice", 500)
    /\ InvStep /\ InvFrame
    /\ UNCHANGED <<blobs, invoices, nextInvoiceId, payments, reminders>>

\* try { deletePaymentRemindersByInvoiceId; createPaymentReminders } catch
\* { console.error }: the reminder service works outside the transaction.
\* "ok": both calls complete; "deleteFail": the delete throws; "createFail":
\* the reminders are deleted and the create throws.
ReminderOutcomes == IF faults < MaxFaults THEN {"ok", "deleteFail", "createFail"} ELSE {"ok"}

UpdateInvoiceReminders(outcome) ==
    /\ Injected(outcome = "ok")
    /\ inv.pc = "reminders"
    /\ reminders' =
          IF outcome = "deleteFail" THEN reminders
          ELSE IF Truthy(inv.work.paymentReminderRepetition) /\ outcome = "ok"
          THEN CreatePaymentReminders(DeletePaymentReminders(reminders, inv.invoiceId),
                                      inv.invoiceId, inv.work.dueDate)
          ELSE DeletePaymentReminders(reminders, inv.invoiceId)
    /\ inv' = [inv EXCEPT !.pc = "commit"]
    /\ InvStep /\ InvFrame
    /\ UNCHANGED <<blobs, invoices, nextInvoiceId, payments>>

\* COMMIT; return mapInvoiceToResponse(updatedInvoice)
UpdateInvoiceCommit(ok) ==
    /\ Injected(ok)
    /\ inv.pc = "commit"
    /\ IF ok
       THEN /\ invoices' = [invoices EXCEPT ![inv.invoiceId] = inv.work]
            /\ payments' = IF inv.paymentsDeleted
                           THEN DeletePayments(payments, inv.invoiceId) ELSE payments
            /\ inv' = [inv EXCEPT !.pc = "done",
                          !.response = MapInvoiceToResponse(inv.invoiceId, inv.work)]
       ELSE /\ inv' = UpdateRollback(inv, "Failed to update invoice", 500)
            /\ UNCHANGED <<invoices, payments>>
    /\ InvStep /\ InvFrame
    /\ UNCHANGED <<blobs, nextInvoiceId, reminders>>

(***************************************************************************)
(* The read paths that download an artifact: getClientInvoicePdf,          *)
(* sendInvoiceEmail, GET /:id/pdf and GET /:id/attachment of the expenses  *)
(***************************************************************************)
\* master_clients: the clients of the invoices.
ClientIds == {1, 2, 3, 4}

\* WHERE id = $1 AND "clientId" = $2
ClientRowVisible(table, id, clientId) == id \in DOMAIN table /\ table[id].clientId = clientId

\* invoice.invoiceNumber.endsWith('.pdf') is evaluated when invoice_file_name
\* is empty: on a null invoiceNumber it throws a TypeError.
InvoicePdfNameThrows(row) == ~Truthy(row.invoiceFileName) /\ ~Truthy(row.invoiceNumber)

\* invoice_file_name, or invoiceNumber if it ends with '.pdf', or
\* `${invoiceNumber}.pdf`
InvoicePdfFileName(row) ==
    IF Truthy(row.invoiceFileName) THEN row.invoiceFileName
    ELSE IF EndsWith(row.invoiceNumber, ".pdf") THEN row.invoiceNumber
    ELSE row.invoiceNumber \o ".pdf"

\* BlobStorageService.downloadFile(path): a path that holds no object is a
\* miss, which surfaces as a NotFound error with status 404.
DownloadMisses(store, path) == ~Exists(store, path)

\* An error that is not an AppError and that no catch block of the service
\* wraps: the request layer answers 500 with its generic message.
Unhandled(r) == InvFail(r, "Internal server error", 500)

\* getClientInvoicePdf(invoiceId, clientId)
GetClientInvoicePdf(i, c, ok) ==
    /\ Injected(ok)
    /\ InvStart
    /\ LET r0 == StartInv("clientPdf", i, c, NoName)
       IN inv' =
            IF ~ok THEN InvFail(r0, "Failed to retrieve invoice PDF", 500)
            ELSE IF ~ClientRowVisible(invoices, i, c)
            THEN InvFail(r0, "Invoice not found or access denied", 404)
            ELSE IF InvoicePdfNameThrows(invoices[i])
            THEN InvFail(r0, "Failed to retrieve invoice PDF", 500)
            ELSE IF DownloadMisses(blobs, BlobPath(InvoicePrefix, invoices[i].userId,
                                                   InvoicePdfFileName(invoices[i])))
            THEN InvFail(r0, "File not found", 404)
            ELSE [r0 EXCEPT !.pc = "done",
                            !.response =
                               [id |-> i, clientId |-> invoices[i].clientId,
                                fileName |-> InvoicePdfFileName(invoices[i]),
                                pdfOf |-> pdfContent[BlobPath(InvoicePrefix,
                                              invoices[i].userId,
                                              InvoicePdfFileName(invoices[i]))]]]
    /\ InvFrame
    /\ UNCHANGED <<blobs, invoices, nextInvoiceId, payments, reminders>>

\* getClientInvoices(clientId): the client is looked up, then its invoices.
GetClientInvoices(c, ok) ==
    /\ Injected(ok)
    /\ InvStart
    /\ LET r0 == StartInv("clientList", 0, c, NoName)
       IN inv' = IF ~ok THEN InvFail(r0, "Failed to fetch invoices", 500)
                 ELSE IF c \notin ClientIds THEN InvFail(r0, "Client not found", 404)
                 ELSE [r0 EXCEPT !.pc = "done",
                          !.response = { MapInvoiceToResponse(i, invoices[i]) :
                                            i \in {j \in DOMAIN invoices :
                                                      invoices[j].clientId = c} }]
    /\ InvFrame
    /\ UNCHANGED <<blobs, invoices, nextInvoiceId, payments, reminders>>

\* getClientInvoiceById(invoiceId, clientId)
GetClientInvoiceById(i, c, ok) ==
    /\ Injected(ok)
    /\ InvStart
    /\ LET r0 == StartInv("clientGet", i, c, NoName)
       IN inv' = IF ~ok THEN InvFail(r0, "Failed to retrieve invoice", 500)
                 ELSE IF ~ClientRowVisible(invoices, i, c)
                 THEN InvFail(r0, "Invoice not found or access denied", 404)
                 ELSE [r0 EXCEPT !.pc = "done",
                                 !.response = MapInvoiceToResponse(i, invoices[i])]
    /\ InvFrame
    /\ UNCHANGED <<blobs, invoices, nextInvoiceId, payments, reminders>>

\* getClientInvoiceItems(invoiceId, clientId): the invoice_items rows of the
\* invoice, each with the id of its invoice.
GetClientInvoiceItems(i, c, ok) ==
    /\ Injected(ok)
    /\ InvStart
    /\ LET r0 == StartInv("clientItems", i, c, NoName)
       IN inv' = IF ~ok THEN InvFail(r0, "Failed to retrieve invoice items", 500)
                 ELSE IF ~ClientRowVisible(invoices, i, c)
                 THEN InvFail(r0, "Invoice not found or access denied", 404)
                 ELSE [r0 EXCEPT !.pc = "done",
                          !.response = { [invoiceId |-> i,
                                          itemsId |-> invoices[i].items[k].itemsId] :
                                            k \in 1..Len(invoices[i].items) }]
    /\ InvFrame
    /\ UNCHANGED <<blobs, invoices, nextInvoiceId, payments, reminders>>

\* sendInvoiceEmail(invoiceId, userId, 'invoice') up to the download of the
\* attachment; the function has no catch block of its own around the query
\* and the file name.
SendInvoiceEmailFetch(i, u, ok) ==
    /\ Injected(ok)
    /\ InvStart
    /\ LET r0 == StartInv("sendEmail", i, u, NoName)
       IN inv' =
            IF ~ok THEN Unhandled(r0)
            ELSE IF ~RowVisible(invoices, i, u) THEN InvFail(r0, "Invoice not found", 404)
            ELSE IF InvoicePdfNameThrows(invoices[i]) THEN Unhandled(r0)
            ELSE IF DownloadMisses(blobs, BlobPath(InvoicePrefix, u,
                                                   InvoicePdfFileName(invoices[i])))
            THEN InvFail(r0, "Invoice PDF not found in Azure Blob Storage", 404)
            ELSE [r0 EXCEPT !.pc = "sendMail"]
    /\ InvFrame
    /\ UNCHANGED <<blobs, invoices, nextInvoiceId, payments, reminders>>

\* The texts of the errors sendMail rejects with.
MailErrors == {"ECONNREFUSED", "Invalid login"}

MailOutcomes == IF faults < MaxFaults THEN {"sent"} \cup MailErrors ELSE {"sent"}

\* throw new AppError(`Failed to send email: ${emailError.message}`, 500)
SendMailFailure(text) == "Failed to send email: " \o text

\* await sendMail({...attachments}); a failure is rethrown as an AppError.
SendInvoiceEmailSend(outcome) ==
    /\ Injected(outcome = "sent")
    /\ inv.pc = "sendMail"
    /\ inv' = IF outcome = "sent" THEN [inv EXCEPT !.pc = "done", !.mailed = TRUE]
              ELSE InvFail(inv, SendMailFailure(outcome), 500)
    /\ InvStep /\ InvFrame
    /\ UNCHANGED <<blobs, invoices, nextInvoiceId, payments, reminders>>

\* expense.expenseFileName if not blank, else the name derived from the bill
\* number.
ExpenseDownloadName(expense, expenseId) ==
    IF Truthy(expense.expenseFileName) THEN expense.expenseFileName
    ELSE ExpensePdfFileName(expense, expenseId)

\* GET /:id/pdf: getExpenseById, then the download; every error goes to
\* next(error).
DownloadExpensePdf(e, u, ok) ==
    /\ Injected(ok)
    /\ InvStart
    /\ LET r0 == StartInv("expensePdf", e, u, NoName)
       IN inv' =
            IF ~ok THEN InvFail(r0, "Failed to retrieve expense", 500)
            ELSE IF expenses[e].userId # u THEN InvFail(r0, "Expense not found", 404)
            ELSE IF DownloadMisses(blobs, BlobPath(PdfPrefix, u,
                                                   ExpenseDownloadName(expenses[e], e)))
            THEN InvFail(r0, "File not found", 404)
            ELSE [r0 EXCEPT !.pc = "done"]
    /\ InvFrame
    /\ UNCHANGED <<blobs, invoices, nextInvoiceId, payments, reminders>>

\* GET /:id/attachment
DownloadExpenseAttachment(e, u, ok) ==
    /\ Injected(ok)
    /\ InvStart
    /\ LET r0 == StartInv("expenseAttachment", e, u, NoName)
       IN inv' =
            IF ~ok THEN InvFail(r0, "Failed to retrieve expense", 500)
            ELSE IF expenses[e].userId # u THEN InvFail(r0, "Expense not found", 404)
            ELSE IF ~Truthy(expenses[e].attachmentFileName)
            THEN InvFail(r0, "Expense attachment not found", 404)
            ELSE IF DownloadMisses(blobs, BlobPath(AttachmentPrefix, u,
                                                   expenses[e].attachmentFileName))
            THEN InvFail(r0, "File not found", 404)
            ELSE [r0 EXCEPT !.pc = "done"]
    /\ InvFrame
    /\ UNCHANGED <<blobs, invoices, nextInvoiceId, payments, reminders>>

(***************************************************************************)
(* deleteInvoice                                                           *)
(***************************************************************************)
DelFail(d, call, error, statusCode) ==
    [d EXCEPT !.pc = "done", !.calls = Append(@, call), !.error = error,
              !.statusCode = statusCode]

\* SELECT invoice_file_name ... WHERE id = $1 AND "userId" = $2
DeleteInvoiceSelect(i, u, ok) ==
    /\ Injected(ok)
    /\ CanStart
    /\ ops' = ops + 1
    /\ LET d0 == [IdleDel EXCEPT !.invoiceId = i, !.userId = u]
       IN IF ~ok
          THEN del' = DelFail(d0, "select:fail", "Failed to delete invoice", 500)
          ELSE IF ~RowVisible(invoices, i, u)
          THEN del' = DelFail(d0, "select:ok", "Invoice not found", 404)
          ELSE del' = [d0 EXCEPT !.calls = <<"select:ok">>, !.pc = "deleteRow",
                                 !.fileName = invoices[i].invoiceFileName]
    /\ allOk' = (allOk /\ del'.pc # "done")
    /\ req' = IdleReq /\ run' = IdleRun
    /\ UNCHANGED <<blobs, milestones, items, invoices, nextInvoiceId, runsReturned,
                   expenses, clock>>
    /\ inv' = IdleInv
    /\ UNCHANGED <<envVars, pdfContent, sideVars, payments, reminders>>

\* DELETE FROM invoices WHERE id = $1 AND "userId" = $2
DeleteInvoiceRow(ok) ==
    /\ Injected(ok)
    /\ del.pc = "deleteRow"
    /\ IF ok
       THEN /\ invoices' = [i \in (DOMAIN invoices) \ {del.invoiceId} |-> invoices[i]]
            /\ del' = [del EXCEPT !.calls = Append(@, "deleteRow:ok"),
                          !.pc = IF Truthy(del.fileName) THEN "deleteBlob" ELSE "done"]
            /\ UNCHANGED allOk
       ELSE /\ del' = DelFail(del, "deleteRow:fail", "Failed to delete invoice", 500)
            /\ allOk' = FALSE
            /\ UNCHANGED invoices
    /\ UNCHANGED <<blobs, milestones, items, nextInvoiceId, run, runsReturned, ops,
                   expenseVars>>
    /\ UNCHANGED <<envVars, pdfContent, sideVars, invoiceVars>>

\* The artifact delete as it would be without its own try/catch: a failure
\* reaches the outer catch and fails the call.
DeleteInvoiceBlobFatal(ok) ==
    /\ Injected(ok)
    /\ del.pc = "deleteBlob"
    /\ blobs' = IF ok THEN DeleteFile(blobs, BlobPath(InvoicePrefix, del.userId, del.fileName))
                ELSE blobs
    /\ del' = IF ok THEN [del EXCEPT !.pc = "done", !.calls = Append(@, "deleteBlob:ok")]
              ELSE DelFail(del, "deleteBlob:fail", "Failed to delete invoice", 500)
    /\ UNCHANGED <<milestones, items, invoices, nextInvoiceId, run, runsReturned, ops,
                   allOk, expenseVars>>
    /\ UNCHANGED <<envVars, pdfContent, sideVars, invoiceVars>>

\* try { await BlobStorageService.deleteFile(blobPath) } catch { console.warn }
DeleteInvoiceBlob(ok) ==
    /\ Injected(ok)
    /\ del.pc = "deleteBlob"
    /\ blobs' = IF ok THEN DeleteFile(blobs, BlobPath(InvoicePrefix, del.userId, del.fileName))
                ELSE blobs
    /\ del' = [del EXCEPT !.pc = "done",
                  !.calls = Append(@, IF ok THEN "deleteBlob:ok" ELSE "deleteBlob:fail")]
    /\ UNCHANGED <<milestones, items, invoices, nextInvoiceId, run, runsReturned, ops,
                   allOk, expenseVars>>
    /\ UNCHANGED <<envVars, pdfContent, sideVars, invoiceVars>>

(***************************************************************************)
(* Client portal tokens: verifyClientToken and authenticateClientToken     *)
(***************************************************************************)
\* The tokens presented: well formed and signed with the secret or not,
\* expired or not, with the claims of the payload (clientId 0, email '' and
\* hasScope FALSE: the claim is absent).
Tokens ==
    [ form : {"valid", "malformed", "badSignature"}, expired : BOOLEAN,
      type : {"CLIENT", "USER", Undefined}, clientId : {0, 1}, email : {NoName, "a@x.com"},
      hasScope : BOOLEAN ]

\* The Authorization header carries no token.
NoToken ==
    [ form |-> "none", expired |-> FALSE, type |-> Undefined, clientId |-> 0,
      email |-> NoName, hasScope |-> FALSE ]

NoError == [class |-> "none", message |-> NoName]

\* jwt.verify(token, secret): the signature and the form are checked before
\* the expiry; the error thrown, or NoError when the payload is returned.
JwtVerify(t) ==
    IF t.form = "malformed" THEN [class |-> "JsonWebTokenError", message |-> "jwt malformed"]
    ELSE IF t.form = "badSignature"
    THEN [class |-> "JsonWebTokenError", message |-> "invalid signature"]
    ELSE IF t.expired THEN [class |-> "TokenExpiredError", message |-> "jwt expired"]
    ELSE NoError

\* error instanceof jwt.JsonWebTokenError: TokenExpiredError and
\* NotBeforeError are subclasses of JsonWebTokenError.
InstanceOfJsonWebTokenError(e) ==
    e.class \in {"JsonWebTokenError", "TokenExpiredError", "NotBeforeError"}

InstanceOfTokenExpiredError(e) == e.class = "TokenExpiredError"

\* The try block of verifyClientToken: the error it throws, or NoError.
VerifyClientTokenTry(t) ==
    IF JwtVerify(t) # NoError THEN JwtVerify(t)
    ELSE IF t.type # "CLIENT"
    THEN [class |-> "Error", message |-> "Token is not a client token"]
    ELSE IF t.clientId = 0 \/ ~Truthy(t.email) \/ ~t.hasScope
    THEN [class |-> "Error", message |-> "Invalid client token payload"]
    ELSE NoError

\* The catch block of verifyClientToken: the error that leaves the function.
VerifyClientTokenCatch(e) ==
    IF InstanceOfJsonWebTokenError(e)
    THEN [class |-> "Error", message |-> "Invalid client token"]
    ELSE IF InstanceOfTokenExpiredError(e)
    THEN [class |-> "Error", message |-> "Client token has expired"]
    ELSE e

\* verifyClientToken(token): the error it throws, or NoError when it returns
\* the payload.
VerifyClientToken(t) ==
    IF VerifyClientTokenTry(t) = NoError THEN NoError
    ELSE VerifyClientTokenCatch(VerifyClientTokenTry(t))

IdlePortalAuth ==
    [ token |-> NoToken, statusCode |-> 0, error |-> NoName, clientId |-> 0,
      email |-> NoName ]

\* authenticateClientToken(req, res, next): 401 without a token, 403 with the
\* message of the error of verifyClientToken, or next() with req.client set.
AuthenticateClientToken(t) ==
    /\ portalAuth' =
         IF t = NoToken
         THEN [IdlePortalAuth EXCEPT !.statusCode = 401, !.error = "No token provided"]
         ELSE IF VerifyClientToken(t) # NoError
         THEN [IdlePortalAuth EXCEPT !.token = t, !.statusCode = 403,
                                     !.error = VerifyClientToken(t).message]
         ELSE [IdlePortalAuth EXCEPT !.token = t, !.statusCode = 200,
                                     !.clientId = t.clientId, !.email = t.email]
    /\ UNCHANGED <<docVars, authVars, other>>

(***************************************************************************)
(* Client portal login: POST /login (validateClientPassword, generateOTP,  *)
(* sendMail) and POST /verify-otp (verifyOTP, updateLastLogin, token)      *)
(***************************************************************************)
\* const MAX_OTP_ATTEMPTS = parseInt(process.env.MAX_OTP_ATTEMPTS || '3', 10)
MAX_OTP_ATTEMPTS == 3

\* client_auth: the clients with a portal account; an email of no account
\* resolves to 0.
AuthClients == {1, 2}

\* The codes crypto.randomInt draws, and the codes submitted.
Codes == {1, 2}

\* The requests that can be in flight at the same time.
LoginProcs == {1, 2}
VerifyProcs == {1, 2}

IdleLogin ==
    [ pc |-> "idle", clientId |-> 0, code |-> 0, mailed |-> FALSE, statusCode |-> 0,
      error |-> NoName ]

IdleVerify ==
    [ pc |-> "idle", clientId |-> 0, code |-> 0, otpId |-> 0, attempts |-> 0,
      remaining |-> 0, token |-> FALSE, statusCode |-> 0, error |-> NoName ]

\* The row generateOTP inserts.  compared and verified are history: the codes
\* compared with the hash of the row so far, and the calls of verifyOTP that
\* returned success on it.
NewOtp(clientId, code) ==
    [ clientId |-> clientId, code |-> code, expired |-> FALSE, attempts |-> 0,
      isUsed |-> FALSE, compared |-> 0, verified |-> 0 ]

\* UPDATE client_email_otp SET is_used = TRUE
\* WHERE client_id = $1 AND is_used = FALSE AND expires_at > CURRENT_TIMESTAMP
InvalidateUnused(table, clientId) ==
    [i \in DOMAIN table |->
        IF table[i].clientId = clientId /\ ~table[i].isUsed /\ ~table[i].expired
        THEN [table[i] EXCEPT !.isUsed = TRUE] ELSE table[i]]

\* WHERE client_id = $1 AND is_used = FALSE
UnusedOtps(table, clientId) ==
    {i \in DOMAIN table : table[i].clientId = clientId /\ ~table[i].isUsed}

\* ORDER BY created_at DESC LIMIT 1
MostRecent(ids) == CHOOSE i \in ids : \A j \in ids : j <= i

\* comparePassword(otp, otpRecord.otp_hash)
ComparePassword(code, row) == code = row.code

LoginFree(p) == login[p].pc \in {"idle", "done"}
VerifyFree(q) == verify[q].pc \in {"idle", "done"}

LoginEnd(r, statusCode, error) ==
    [r EXCEPT !.pc = "done", !.statusCode = statusCode, !.error = error]

VerifyEnd(r, statusCode, error) ==
    [r EXCEPT !.pc = "done", !.statusCode = statusCode, !.error = error]

AuthFrame ==
    UNCHANGED <<blobs, expenseVars, batchVars, ops, allOk, envVars, invoiceVars,
                pdfContent, portalAuth, other>>

\* POST /login up to validateClientPassword(email, password).
LoginPassword(p, c, passwordOk, ok) ==
    /\ Injected(ok)
    /\ LoginFree(p)
    /\ authOps < MaxAuthOps
    /\ authOps' = authOps + 1
    /\ LET r0 == [IdleLogin EXCEPT !.clientId = c]
       IN IF ~ok
          THEN /\ login' = [login EXCEPT
                              ![p] = LoginEnd(r0, 500, "Failed to validate client credentials")]
               /\ UNCHANGED authLog
          ELSE IF c \notin AuthClients \/ ~passwordOk
          THEN /\ login' = [login EXCEPT
                              ![p] = LoginEnd(r0, 401, "Invalid email or password")]
               /\ UNCHANGED authLog
          ELSE /\ login' = [login EXCEPT ![p] = [r0 EXCEPT !.pc = "invalidate"]]
               /\ authLog' = authLog \cup {<<"password", c>>}
    /\ UNCHANGED <<otps, verify>>
    /\ AuthFrame

\* generateOTP: the code is drawn and hashed, then the unused, unexpired OTPs
\* of the client are invalidated.
GenerateOtpInvalidate(p, ok) ==
    /\ Injected(ok)
    /\ login[p].pc = "invalidate"
    /\ IF ok
       THEN /\ otps' = InvalidateUnused(otps, login[p].clientId)
            /\ login' = [login EXCEPT ![p].pc = "insert"]
       ELSE /\ login' = [login EXCEPT ![p] = LoginEnd(@, 500, "Failed to generate OTP")]
            /\ UNCHANGED otps
    /\ UNCHANGED <<verify, authLog, authOps>>
    /\ AuthFrame

\* generateOTP: INSERT INTO client_email_otp ... attempts 0, is_used FALSE
GenerateOtpInsert(p, code, ok) ==
    /\ Injected(ok)
    /\ login[p].pc = "insert"
    /\ IF ok
       THEN /\ otps' = Append(otps, NewOtp(login[p].clientId, code))
            /\ login' = [login EXCEPT ![p].pc = "sendMail", ![p].code = code]
            /\ authLog' = authLog \cup {<<"otp", login[p].clientId>>}
       ELSE /\ login' = [login EXCEPT ![p] = LoginEnd(@, 500, "Failed to generate OTP")]
            /\ UNCHANGED <<otps, authLog>>
    /\ UNCHANGED <<verify, authOps>>
    /\ AuthFrame

\* The login as it would be if a failed send withdrew the OTP and failed the
\* request.
LoginSendMailStrict(p, sent) ==
    /\ login[p].pc = "sendMail"
    /\ login' = [login EXCEPT ![p] =
          [LoginEnd(@, IF sent THEN 200 ELSE 500, NoName) EXCEPT !.mailed = sent]]
    /\ otps' = IF sent THEN otps ELSE InvalidateUnused(otps, login[p].clientId)
    /\ UNCHANGED <<verify, authLog, authOps, faults>>
    /\ AuthFrame

\* try { await sendMail(...) } catch { console.error }; res.status(200)
LoginSendMail(p, sent) ==
    /\ login[p].pc = "sendMail"
    /\ login' = [login EXCEPT ![p] = [LoginEnd(@, 200, NoName) EXCEPT !.mailed = sent]]
    /\ UNCHANGED <<otps, verify, authLog, authOps, faults>>
    /\ AuthFrame

\* POST /verify-otp up to the lookup of the client by email in verifyOTP.
VerifyOtpSelectAuth(q, c, code, ok) ==
    /\ Injected(ok)
    /\ VerifyFree(q)
    /\ authOps < MaxAuthOps
    /\ authOps' = authOps + 1
    /\ LET r0 == [IdleVerify EXCEPT !.clientId = c, !.code = code]
       IN verify' = [verify EXCEPT ![q] =
             IF ~ok THEN VerifyEnd(r0, 500, "Failed to verify OTP")
             ELSE IF c \notin AuthClients THEN VerifyEnd(r0, 401, "Invalid email")
             ELSE [r0 EXCEPT !.pc = "selectOtp"]]
    /\ UNCHANGED <<otps, login, authLog>>
    /\ AuthFrame

\* The most recent unused OTP of the client is read and checked.
VerifyOtpSelectOtp(q, ok) ==
    /\ Injected(ok)
    /\ verify[q].pc = "selectOtp"
    /\ LET found == UnusedOtps(otps, verify[q].clientId)
           r == verify[q]
       IN verify' = [verify EXCEPT ![q] =
             IF ~ok THEN VerifyEnd(r, 500, "Failed to verify OTP")
             ELSE IF found = {}
             THEN VerifyEnd(r, 400, "No valid OTP found. Please request a new OTP")
             ELSE IF otps[MostRecent(found)].expired
             THEN VerifyEnd(r, 400, "OTP has expired. Please request a new OTP")
             ELSE IF otps[MostRecent(found)].attempts >= MAX_OTP_ATTEMPTS
             THEN [r EXCEPT !.otpId = MostRecent(found), !.pc = "burn"]
             ELSE [r EXCEPT !.otpId = MostRecent(found),
                            !.attempts = otps[MostRecent(found)].attempts,
                            !.pc = "compare"]]
    /\ UNCHANGED <<otps, login, authLog, authOps>>
    /\ AuthFrame

\* UPDATE client_email_otp SET is_used = TRUE WHERE id = $1, then the error.
VerifyOtpBurn(q, ok) ==
    /\ Injected(ok)
    /\ verify[q].pc = "burn"
    /\ IF ok
       THEN /\ otps' = [otps EXCEPT ![verify[q].otpId].isUsed = TRUE]
            /\ verify' = [verify EXCEPT ![q] =
                  VerifyEnd(@, 400, "Maximum OTP attempts exceeded. Please request a new OTP")]
       ELSE /\ verify' = [verify EXCEPT ![q] = VerifyEnd(@, 500, "Failed to verify OTP")]
            /\ UNCHANGED otps
    /\ UNCHANGED <<login, authLog, authOps>>
    /\ AuthFrame

\* const isOtpValid = await comparePassword(otp, otpRecord.otp_hash)
VerifyOtpCompare(q) ==
    /\ verify[q].pc = "compare"
    /\ otps' = [otps EXCEPT ![verify[q].otpId].compared = @ + 1]
    /\ verify' = [verify EXCEPT ![q].pc =
                     IF ComparePassword(verify[q].code, otps[verify[q].otpId])
                     THEN "markUsed" ELSE "increment"]
    /\ UNCHANGED <<login, authLog, authOps, faults>>
    /\ AuthFrame

\* UPDATE client_email_otp SET attempts = attempts + 1 WHERE id = $1
VerifyOtpIncrement(q, ok) ==
    /\ Injected(ok)
    /\ verify[q].pc = "increment"
    /\ IF ok
       THEN /\ otps' = [otps EXCEPT ![verify[q].otpId].attempts = @ + 1]
            /\ verify' = [verify EXCEPT ![q] =
                  [VerifyEnd(@, 400, "Invalid OTP") EXCEPT
                      !.remaining = MAX_OTP_ATTEMPTS - (verify[q].attempts + 1)]]
       ELSE /\ verify' = [verify EXCEPT ![q] = VerifyEnd(@, 500, "Failed to verify OTP")]
            /\ UNCHANGED otps
    /\ UNCHANGED <<login, authLog, authOps>>
    /\ AuthFrame

\* UPDATE client_email_otp SET is_used = TRUE WHERE id = $1; verifyOTP returns.
VerifyOtpMarkUsed(q, ok) ==
    /\ Injected(ok)
    /\ verify[q].pc = "markUsed"
    /\ IF ok
       THEN /\ otps' = [otps EXCEPT ![verify[q].otpId].isUsed = TRUE,
                                   ![verify[q].otpId].verified = @ + 1]
            /\ verify' = [verify EXCEPT ![q].pc = "lastLogin"]
            /\ authLog' = authLog \cup {<<"verified", verify[q].clientId>>}
       ELSE /\ verify' = [verify EXCEPT ![q] = VerifyEnd(@, 500, "Failed to verify OTP")]
            /\ UNCHANGED <<otps, authLog>>
    /\ UNCHANGED <<login, authOps>>
    /\ AuthFrame

\* updateLastLogin: pool.connect() is awaited outside the try block, so its
\* failure is thrown to the route; a failure of the UPDATE is caught and logged.
LastLoginOutcomes ==
    IF faults < MaxFaults THEN {"ok", "queryFails", "connectFails"} ELSE {"ok"}

\* await updateLastLogin(clientId); generateClientToken; res.status(200)
VerifyLastLogin(q, outcome) ==
    /\ Injected(outcome = "ok")
    /\ verify[q].pc = "lastLogin"
    /\ IF outcome # "connectFails"
       THEN /\ verify' = [verify EXCEPT ![q] = [VerifyEnd(@, 200, NoName) EXCEPT
                                                   !.token = TRUE]]
            /\ authLog' = authLog \cup {<<"token", verify[q].clientId>>}
       ELSE /\ verify' = [verify EXCEPT ![q] =
                  VerifyEnd(@, 500, "pool.connect() rejected")]
            /\ UNCHANGED authLog
    /\ UNCHANGED <<otps, login, authOps>>
    /\ AuthFrame

\* OTP_EXPIRY_MINUTES pass: every OTP stored so far is expired.
OtpExpire ==
    /\ \E i \in DOMAIN otps : ~otps[i].expired
    /\ otps' = [i \in DOMAIN otps |-> [otps[i] EXCEPT !.expired = TRUE]]
    /\ UNCHANGED <<login, verify, authLog, authOps, faults>>
    /\ AuthFrame

NextLoginOf(procs, clients) ==
    \/ \E p \in procs, c \in clients, passwordOk \in BOOLEAN, ok \in Outcomes :
          LoginPassword(p, c, passwordOk, ok)
    \/ \E p \in procs, ok \in Outcomes : GenerateOtpInvalidate(p, ok)
    \/ \E p \in procs, code \in Codes, ok \in Outcomes : GenerateOtpInsert(p, code, ok)
    \/ \E p \in procs, sent \in BOOLEAN : LoginSendMail(p, sent)

NextVerifyOf(procs, clients) ==
    \/ \E q \in procs, c \in clients, code \in Codes, ok \in Outcomes :
          VerifyOtpSelectAuth(q, c, code, ok)
    \/ \E q \in procs, ok \in Outcomes : VerifyOtpSelectOtp(q, ok)
    \/ \E q \in procs, ok \in Outcomes : VerifyOtpBurn(q, ok)
    \/ \E q \in procs : VerifyOtpCompare(q)
    \/ \E q \in procs, ok \in Outcomes : VerifyOtpIncrement(q, ok)
    \/ \E q \in procs, ok \in Outcomes : VerifyOtpMarkUsed(q, ok)
    \/ \E q \in procs, outcome \in LastLoginOutcomes : VerifyLastLogin(q, outcome)

NextOther ==
    \/ \E ok \in Outcomes : OtherQuery(ok)
    \/ \E ok \in Outcomes : OtherGetClients(ok)
    \/ \E ok \in Outcomes : OtherGetItem(ok)
    \/ \E ok \in Outcomes : OtherCreateInvoice(ok)
    \/ \E outcome \in RenderOutcomes : OtherRender(outcome)
    \/ \E ok \in Outcomes : OtherUpload(ok)
    \/ \E ok \in Outcomes : OtherPatch(ok)
    \/ \E ok \in Outcomes : OtherUpdateStatus(ok)

\* Concurrent verify-otp requests for client 1, whose OTP is stored.
NextVerifyRace == NextVerifyOf(VerifyProcs, {1}) \/ OtpExpire

\* Concurrent logins of client 1 and verify-otp requests, one at a time.
NextLoginRace == NextLoginOf(LoginProcs, {1}) \/ NextVerifyOf({1}, {1}) \/ OtpExpire

\* The two-step login of either client, or of nobody's email, one login and
\* one verify-otp request at a time.
NextTwoStep == NextLoginOf({1}, AuthClients) \/ NextVerifyOf({1}, AuthClients \cup {0})


InitSide ==
    /\ otps = <<>>
    /\ login = [p \in LoginProcs |-> IdleLogin]
    /\ verify = [q \in VerifyProcs |-> IdleVerify]
    /\ authLog = {}
    /\ authOps = 0
    /\ portalAuth = IdlePortalAuth
    /\ other = IdleRun

InitExpenses ==
    /\ expenses = [e \in ExpenseIds |->
                      [userId |-> ExpenseOwner(e), billNumber |-> BillNumberOf(e),
                       attachmentFileName |-> NoName, expenseFileName |-> NoName]]
    /\ clock = 0
    /\ req = IdleReq

InitBatch ==
    /\ milestones = [m \in MilestoneIds |-> MilestoneRows[m]]
    /\ items = {}
    /\ invoices = <<>>
    /\ nextInvoiceId = 1
    /\ run = IdleRun
    /\ runsReturned = 0
    /\ del = IdleDel

InitDocuments ==
    /\ blobs = {}
    /\ pdfContent = <<>>
    /\ allOk = TRUE
    /\ ops = 0
    /\ faults = 0
    /\ tz \in TzOffsets
    /\ daysPassed = 0
    /\ payments = {}
    /\ reminders = {}
    /\ inv = IdleInv
    /\ InitExpenses
    /\ InitBatch

Init == InitDocuments /\ InitSide

NextExpense ==
    \/ \E e \in ExpenseIds, u \in Users, f \in AttachmentFiles, ok \in Outcomes :
          AttachmentGetExpense(e, u, f, ok)
    \/ \E e \in ExpenseIds, u \in Users, ok \in Outcomes :
          PdfGetExpense(e, u, ok)
    \/ \E ok \in Outcomes : ExpenseUpload(ok)
    \/ \E ok \in Outcomes : ExpenseDeleteOld(ok)
    \/ \E ok \in Outcomes : ExpensePatch(ok)
    \/ \E ok \in Outcomes : ExpenseRollback(ok)

NextBatch ==
    \/ \E ok \in Outcomes : BatchQuery(ok)
    \/ \E ok \in Outcomes : BatchGetClients(ok)
    \/ \E ok \in Outcomes : BatchGetItem(ok)
    \/ \E ok \in Outcomes : BatchCreateInvoice(ok)
    \/ \E outcome \in RenderOutcomes : BatchRender(outcome)
    \/ \E ok \in Outcomes : BatchUpload(ok)
    \/ \E ok \in Outcomes : BatchPatch(ok)
    \/ \E ok \in Outcomes : BatchUpdateStatus(ok)

NextDelete ==
    \/ \E i \in 1..nextInvoiceId, u \in Users, ok \in Outcomes : DeleteInvoiceSelect(i, u, ok)
    \/ \E ok \in Outcomes : DeleteInvoiceRow(ok)
    \/ \E ok \in Outcomes : DeleteInvoiceBlob(ok)

NextCreate ==
    \/ \E data \in CreateInputs, ok \in Outcomes : CreateInvoiceBegin(data, ok)
    \/ \E ok \in Outcomes : CreateInvoiceInsert(ok)
    \/ \E ok \in Outcomes : CreateInvoiceItem(ok)
    \/ \E ok \in Outcomes : CreateInvoiceCommit(ok)
    \/ \E ok \in Outcomes : CreateInvoiceReminders(ok)

NextRead ==
    \/ \E i \in 1..nextInvoiceId, u \in Users, ok \in Outcomes : GetInvoiceById(i, u, ok)
    \/ \E u \in Users, ok \in Outcomes : GetInvoicesByUserId(u, ok)
    \/ Midnight

\* The steps of updateInvoice after the first.
NextUpdateSteps ==
    \/ \E ok \in Outcomes : UpdateInvoiceDeletePayments(ok)
    \/ \E ok \in Outcomes : UpdateInvoiceChecks(ok)
    \/ \E ok \in Outcomes : UpdateInvoiceUpdate(ok)
    \/ \E ok \in Outcomes : UpdateInvoiceAutoStatus(ok)
    \/ \E outcome \in ReminderOutcomes : UpdateInvoiceReminders(outcome)
    \/ \E ok \in Outcomes : UpdateInvoiceCommit(ok)

\* Owners update their own invoices and record payments against them.
NextUpdate ==
    \/ \E i \in DOMAIN invoices, upd \in UpdateInputs, ok \in Outcomes :
          UpdateInvoiceSelect(i, invoices[i].userId, upd, ok)
    \/ NextUpdateSteps
    \/ \E i \in DOMAIN invoices : AddPayment(i, invoices[i].userId)
    \/ Midnight

\* Either user names any invoice id, existing or not.
NextAccess ==
    \/ \E i \in 1..nextInvoiceId, u \in Users, ok \in Outcomes : GetInvoiceById(i, u, ok)
    \/ \E i \in 1..nextInvoiceId, u \in Users, ok \in Outcomes :
          PatchInvoicePdfFilename(i, u, "X.pdf", ok)
    \/ \E i \in 1..nextInvoiceId, u \in Users, upd \in AccessUpdateInputs, ok \in Outcomes :
          UpdateInvoiceSelect(i, u, upd, ok)
    \/ NextUpdateSteps
    \/ NextDelete

NextDownload ==
    \/ \E i \in 1..nextInvoiceId, c \in ClientIds, ok \in Outcomes :
          GetClientInvoicePdf(i, c, ok)
    \/ \E i \in 1..nextInvoiceId, u \in Users, ok \in Outcomes :
          SendInvoiceEmailFetch(i, u, ok)
    \/ \E outcome \in MailOutcomes : SendInvoiceEmailSend(outcome)
    \/ \E e \in ExpenseIds, u \in Users, ok \in Outcomes : DownloadExpensePdf(e, u, ok)
    \/ \E e \in ExpenseIds, u \in Users, ok \in Outcomes :
          DownloadExpenseAttachment(e, u, ok)

\* The client portal: a client, or somebody with no client record (0), names
\* any invoice id.
NextPortal ==
    \/ \E c \in ClientIds \cup {0}, ok \in Outcomes : GetClientInvoices(c, ok)
    \/ \E i \in 1..nextInvoiceId, c \in ClientIds, ok \in Outcomes :
          GetClientInvoiceById(i, c, ok)
    \/ \E i \in 1..nextInvoiceId, c \in ClientIds, ok \in Outcomes :
          GetClientInvoiceItems(i, c, ok)
    \/ \E i \in 1..nextInvoiceId, c \in ClientIds, ok \in Outcomes :
          GetClientInvoicePdf(i, c, ok)

NextInvoice ==
    NextCreate \/ NextRead \/ NextUpdate \/ NextAccess \/ NextDownload \/ NextPortal

Next == NextExpense \/ NextBatch \/ NextDelete \/ NextInvoice

vars == <<blobs, expenses, clock, req, milestones, items, invoices, nextInvoiceId, run,
          runsReturned, del, ops, faults, allOk, tz, daysPassed, payments, reminders,
          inv, pdfContent, otps, login, verify, authLog, authOps, portalAuth, other>>

\* The expense upload routes alone.
SpecExpense == Init /\ [][NextExpense]_vars

\* The batch processor and deleteInvoice.
SpecBatch == Init /\ [][NextBatch \/ NextDelete]_vars

\* Every operation.
Spec == Init /\ [][Next]_vars

\* createInvoice and the reads, from an empty invoices table.
SpecCreate == Init /\ [][NextCreate \/ NextRead]_vars

\* The same on a server that runs in UTC.
InitUTC == Init /\ tz = 0

SpecCreateUTC == InitUTC /\ [][NextCreate \/ NextRead]_vars

\* A paid invoice of user 1 with a payment recorded against it, and a pending
\* invoice of user 2 that is due today.
ExistingInvoices ==
    << [ userId |-> 1, clientId |-> 1, projectId |-> 0, invoiceNumber |-> "N1",
         invoiceDate |-> Today, dueDate |-> Today + 1, subTotalAmount |-> 100,
         gst |-> 0, totalAmount |-> 100, status |-> "paid",
         paymentReminderRepetition |-> NoName, paymentTerms |-> "full",
         invoiceFileName |-> NoName, items |-> <<>> ],
       [ userId |-> 2, clientId |-> 4, projectId |-> 0, invoiceNumber |-> "N2",
         invoiceDate |-> Today, dueDate |-> Today, subTotalAmount |-> 100,
         gst |-> 0, totalAmount |-> 100, status |-> "pending",
         paymentReminderRepetition |-> NoName, paymentTerms |-> "full",
         invoiceFileName |-> NoName, items |-> <<>> ] >>

InitStores ==
    /\ blobs = {}
    /\ pdfContent = <<>>
    /\ InitSide
    /\ allOk = TRUE
    /\ faults = 0
    /\ daysPassed = 0
    /\ payments = {[invoiceId |-> 1, amount |-> 100]}
    /\ reminders = {}
    /\ inv = IdleInv
    /\ InitExpenses
    /\ milestones = [m \in MilestoneIds |-> MilestoneRows[m]]
    /\ items = ExistingItems
    /\ invoices = ExistingInvoices
    /\ nextInvoiceId = Len(ExistingInvoices) + 1
    /\ run = IdleRun
    /\ runsReturned = 0
    /\ del = IdleDel

InitInvoice == InitStores /\ ops = 0 /\ tz \in TzOffsets


\* createInvoice with line items, the items table filled.
SpecAtomic == InitInvoice /\ [][NextCreate]_vars

\* The batch processor and the read paths that download what it uploaded, on
\* a server that runs in UTC.
SpecDownload == InitUTC /\ [][NextBatch \/ NextDownload]_vars

\* Client 1 has passed the password step and its OTP, code 1, is stored.
InitOtpStored ==
    /\ InitDocuments /\ tz = 0
    /\ otps = <<NewOtp(1, 1)>>
    /\ login = [p \in LoginProcs |-> IdleLogin]
    /\ verify = [q \in VerifyProcs |-> IdleVerify]
    /\ authLog = {<<"password", 1>>, <<"otp", 1>>}
    /\ authOps = 0
    /\ portalAuth = IdlePortalAuth
    /\ other = IdleRun

SpecVerifyRace == InitOtpStored /\ [][NextVerifyRace]_vars

\* The same after two verify-otp requests with a wrong code.
InitOtpTried ==
    /\ InitDocuments /\ tz = 0
    /\ otps = <<[NewOtp(1, 1) EXCEPT !.attempts = 2, !.compared = 2]>>
    /\ login = [p \in LoginProcs |-> IdleLogin]
    /\ verify = [q \in VerifyProcs |-> IdleVerify]
    /\ authLog = {<<"password", 1>>, <<"otp", 1>>}
    /\ authOps = 0
    /\ portalAuth = IdlePortalAuth
    /\ other = IdleRun

SpecLoginRace == InitOtpTried /\ [][NextLoginRace]_vars

SpecTwoStep == InitOtpTried /\ [][NextTwoStep]_vars

\* Requests with any token, or none, through authenticateClientToken.
\* One run and a second one started while it is in flight, on one day, with
\* every call of both runs succeeding.
InitOverlap ==
    /\ blobs = {}
    /\ pdfContent = <<>>
    /\ allOk = TRUE
    /\ ops = MaxOps - 1
    /\ faults = MaxFaults
    /\ tz = 0
    /\ daysPassed = 0
    /\ payments = {}
    /\ reminders = {}
    /\ inv = IdleInv
    /\ InitExpenses
    /\ InitBatch
    /\ InitSide

SpecOverlap == InitOverlap /\ [][NextBatch \/ NextOther]_vars

NextToken == \E t \in Tokens \cup {NoToken} : AuthenticateClientToken(t)

SpecToken == InitUTC /\ [][NextToken]_vars

\* The batch processor and the client portal reads of what it created.
SpecPortal == InitUTC /\ [][NextBatch \/ NextPortal]_vars

\* The invoice data of the calls of createInvoice followed next to the artifact
\* operations: with line items, or with a reminder repetition.
ArtifactCreateInputs ==
    { data \in CreateInputs :
        /\ data.clientId = 1 /\ data.status = Undefined /\ data.dueDate = Today + 1
        /\ (data.items = <<Line(1), Line(2)>> \/ Truthy(data.paymentReminderRepetition)) }

\* Every operation that opens a transaction or calls the artifact store, each
\* called by the owner of the record.
NextArtifact ==
    \/ \E e \in ExpenseIds, f \in AttachmentFiles, ok \in Outcomes :
          AttachmentGetExpense(e, ExpenseOwner(e), f, ok)
    \/ \E e \in ExpenseIds, ok \in Outcomes : PdfGetExpense(e, ExpenseOwner(e), ok)
    \/ \E ok \in Outcomes : ExpenseUpload(ok)
    \/ \E ok \in Outcomes : ExpenseDeleteOld(ok)
    \/ \E ok \in Outcomes : ExpensePatch(ok)
    \/ \E ok \in Outcomes : ExpenseRollback(ok)
    \/ NextBatch
    \/ \E i \in DOMAIN invoices, ok \in Outcomes :
          DeleteInvoiceSelect(i, invoices[i].userId, ok)
    \/ \E ok \in Outcomes : DeleteInvoiceRow(ok)
    \/ \E ok \in Outcomes : DeleteInvoiceBlob(ok)
    \/ \E data \in ArtifactCreateInputs, ok \in Outcomes : CreateInvoiceBegin(data, ok)
    \/ \E ok \in Outcomes : CreateInvoiceInsert(ok)
    \/ \E ok \in Outcomes : CreateInvoiceItem(ok)
    \/ \E ok \in Outcomes : CreateInvoiceCommit(ok)
    \/ \E ok \in Outcomes : CreateInvoiceReminders(ok)
    \/ \E i \in DOMAIN invoices, upd \in AccessUpdateInputs, ok \in Outcomes :
          UpdateInvoiceSelect(i, invoices[i].userId, upd, ok)
    \/ NextUpdateSteps


\* The existing invoices were created by a call that is counted; the server
\* runs in UTC.
InitArtifact == InitStores /\ ops = 1 /\ tz = 0

SpecArtifact == InitArtifact /\ [][NextArtifact]_vars

\* updateInvoice by the owners of existing invoices.
SpecUpdate == InitInvoice /\ [][NextUpdate]_vars

\* Calls by either user on invoices of either.
SpecAccess == InitInvoice /\ [][NextAccess]_vars

\* The document operations (batch run, expense replaces, invoice delete) for
\* as long as every operation that ended returned success.
NextSuccessful == allOk /\ (NextExpense \/ NextBatch \/ NextDelete)

SpecSuccessful == Init /\ [][NextSuccessful]_vars

(***************************************************************************)
(* Properties                                                              *)
(***************************************************************************)
ExpenseResolves(e) ==
    /\ Truthy(expenses[e].attachmentFileName) =>
          Exists(blobs, BlobPath(AttachmentPrefix, expenses[e].userId,
                                 expenses[e].attachmentFileName))
    /\ Truthy(expenses[e].expenseFileName) =>
          Exists(blobs, BlobPath(PdfPrefix, expenses[e].userId,
                                 expenses[e].expenseFileName))

InvoiceResolves(i) ==
    Truthy(invoices[i].invoiceFileName) =>
       Exists(blobs, BlobPath(InvoicePrefix, invoices[i].userId,
                              invoices[i].invoiceFileName))

\* The path of the object the record named when the request read it.
OriginalPath(r) == BlobPath(Prefix(r), r.userId, CurrentName(r.expense, r.op))

\* C1: at every point of an expense attachment or PDF replace, and after it
\* has ended in success or failure, every non-empty artifact filename of an
\* expense record names an object that exists in the artifact store.
C1_NoDanglingExpenseReference == \A e \in ExpenseIds : ExpenseResolves(e)

\* C2: the delete of the old artifact object is issued only after the
\* record's filename patch has succeeded: never before it, never without it.
C2_OldDeleteOnlyAfterPatch ==
    /\ req.pc = "deleteOld" => Called(req, "patch:ok")
    /\ \A j \in 1..Len(req.calls) :
          req.calls[j] \in {"deleteOld:ok", "deleteOld:fail"} =>
             \E i \in 1..(j - 1) : req.calls[i] = "patch:ok"

\* C3: when the record patch of a replace has failed and the request has
\* ended, the newly uploaded object does not exist, the error surfaced is the
\* patch's, the record is as it was and the artifact it names still exists.
C3_PatchFailureRestores ==
    (req.pc = "done" /\ Called(req, "patch:fail")) =>
       /\ ~Exists(blobs, req.blobPath)
       /\ req.error = "patch"
       /\ expenses[req.expenseId] = req.expense
       /\ Truthy(CurrentName(req.expense, req.op)) => Exists(blobs, OriginalPath(req))

\* C4: when the delete of the old artifact fails, nothing is surfaced: the
\* replace goes on to its end without an error, and then the record names the
\* new artifact, which exists in the store.
C4_OldDeleteFailureNotSurfaced ==
    Called(req, "deleteOld:fail") =>
       /\ req.error = NoName
       /\ req.pc = "done" =>
             /\ CurrentName(expenses[req.expenseId], req.op) = req.fileName
             /\ Exists(blobs, req.blobPath)

\* C5: after any sequence of operations that each returned success (batch
\* run, attachment replace, PDF replace, invoice delete), every expense and
\* every invoice that has a non-empty artifact filename has its object in the
\* artifact store at the path derived from kind, category, owner and filename.
C5_SuccessfulOperationsResolve ==
    (allOk /\ ReqFree /\ RunFree /\ DelFree) =>
       /\ \A e \in ExpenseIds : ExpenseResolves(e)
       /\ \A i \in DOMAIN invoices : InvoiceResolves(i)

\* C6: a replace uploads under a filename different from the one the record
\* references when the request reads it, so the referenced object is never
\* overwritten in place (a second PDF upload for the same expense included).
C6_UploadUnderFreshName ==
    Called(req, "upload:ok") => req.fileName # CurrentName(req.expense, req.op)

C8_SelectedMilestonesCreated ==
    (run.pc = "done" /\ ~run.thrown) =>
       \A k \in 1..Len(run.selected) : milestones[run.selected[k].id].status = "created"

\* C9: a run on the same day after a run that returned normally selects zero
\* milestones: it returns processed = 0 and created = 0.
C9_SecondRunSelectsNothing ==
    (run.pc # "idle" /\ ~run.thrown /\ run.after >= 1) =>
       /\ Len(run.selected) = 0
       /\ run.result.processed = 0
       /\ run.result.created = 0

\* C10: once the due-milestone query has succeeded, no failure of a per-client
\* or per-milestone step escapes: the run does not stop before it returns, and
\* it returns with processed equal to the number of milestones selected.
C10_RunReturnsNormally ==
    (run.pc # "idle" /\ ~run.thrown) =>
       /\ run.pc # "hung"
       /\ run.pc = "done" => run.result.processed = Len(run.selected)

\* A step of the run in which generateInvoicePdf or uploadFile has rejected.
PdfStepRejected ==
    /\ run.pc \in {"render", "upload"}
    /\ Called(run', "render:fail") \/ Called(run', "upload:fail")

C12_QueryFailureIsFatal ==
    [][(ops' = ops + 1 /\ run'.pc # "idle" /\ faults' = faults + 1) =>
          /\ run'.thrown /\ run'.pc = "done"
          /\ milestones' = milestones /\ invoices' = invoices
          /\ items' = items /\ blobs' = blobs
          /\ DueMilestones(milestones') = DueMilestones(milestones)]_vars

C12_Witness ==
    /\ run.pc = "done" /\ run.thrown
    /\ DueMilestones(milestones) # <<>>
    /\ invoices = <<>> /\ blobs = {}

\* C13: over any sequence of runs on the same day, with any step allowed to
\* fail, at most one invoice record exists per (milestone, client) pair.  Each
\* due milestone has a project of its own, so a pair is a (project, client).
C13_OneInvoicePerMilestoneClient ==
    \A i, j \in DOMAIN invoices :
       (invoices[i].projectId = invoices[j].projectId
          /\ invoices[i].clientId = invoices[j].clientId) => i = j

\* The milestone rows an invoice can come from.
SourceMilestones(invoice) ==
    {m \in MilestoneIds : /\ MilestoneRows[m].projectId = invoice.projectId
                          /\ MilestoneRows[m].userId = invoice.userId
                          /\ MilestoneRows[m].amount = invoice.totalAmount}

\* C14: the run processes exactly the milestones dated today with status
\* 'pending' or null: every selected milestone and every invoice comes from
\* such a row, a row with another date or with status 'created' is left as it
\* is, and no step moves a milestone from 'created' to another status.
C14_OnlyDueMilestonesProcessed ==
    /\ [](/\ \A k \in 1..Len(run.selected) : run.selected[k].milestoneDate = Today
                                             /\ run.selected[k].status \in {"pending", "null"}
          /\ run.pc \notin {"idle"} /\ ~run.thrown =>
                \A m \in MilestoneIds :
                   (milestones[m].milestoneDate = Today
                      /\ MilestoneRows[m].status \in {"pending", "null"}) =>
                      \/ \E k \in 1..Len(run.selected) : run.selected[k].id = m
                      \/ milestones[m].status = "created"
          /\ \A i \in DOMAIN invoices :
                \E m \in SourceMilestones(invoices[i]) :
                   /\ MilestoneRows[m].milestoneDate = Today
                   /\ MilestoneRows[m].status \in {"pending", "null"})
    /\ [][\A m \in MilestoneIds :
             /\ milestones[m].status = "created" => milestones'[m] = milestones[m]
             /\ milestones[m].milestoneDate # Today => milestones'[m] = milestones[m]]_vars

C14_Witness ==
    /\ run.pc = "done" /\ ~run.thrown
    /\ Len(run.selected) = 3
    /\ invoices # <<>>
    /\ milestones[1].status = "created"
    /\ milestones[4] = MilestoneRows[4] /\ milestones[5] = MilestoneRows[5]


\* The status the specification derives from a due date: overdue when the
\* date is before today's, pending otherwise.
DerivedStatus(dueDate) == IF dueDate < LocalDate THEN "overdue" ELSE "pending"

\* A call of createInvoice commits its row in this step.
CreateStored == inv.op = "create" /\ inv.pc = "commitCreate" /\ inv'.error = NoName

\* C15: createInvoice stores 'overdue' when the due date is before today and
\* 'pending' when it is today or later, whatever status the caller passes.
C15_InitialStatusByDueDate ==
    [][CreateStored =>
         invoices'[inv'.invoiceId].status = DerivedStatus(inv'.input.dueDate)]_vars

\* A call of updateInvoice commits in this step.
UpdateCommits ==
    inv.op = "update" /\ inv.pc = "commit" /\ inv'.pc = "done" /\ inv'.error = NoName

\* C16: an invoice leaves 'paid' only in an updateInvoice call that passes an
\* explicit status; every other step, an update of the due date into the past
\* included, leaves a paid invoice paid.
C16_PaidIsSticky ==
    [][\A i \in DOMAIN invoices :
          (invoices[i].status = "paid" /\ i \in DOMAIN invoices'
              /\ invoices'[i].status # "paid")
          => /\ inv.op = "update" /\ inv.invoiceId = i
             /\ inv.input.status \notin {Undefined, "paid"}]_vars

\* A paid invoice whose due date an update without a status has moved into the
\* past.
C16_Witness ==
    /\ inv.op = "update" /\ inv.pc = "done" /\ inv.error = NoName
    /\ inv.currentStatus = "paid"
    /\ inv.input.status = Undefined /\ inv.input.dueDate = Today - 1
    /\ invoices[inv.invoiceId].dueDate = Today - 1
    /\ invoices[inv.invoiceId].status = "paid"

\* C17: a committed updateInvoice without a status on an invoice that is not
\* paid leaves the status derived from the new due date when one is passed,
\* and leaves the status as it was when none is passed.
C17_StatusFollowsDueDate ==
    [][(UpdateCommits /\ inv.currentStatus # "paid" /\ inv.input.status = Undefined)
         => invoices'[inv.invoiceId].status =
               IF inv.input.dueDate # 0 THEN DerivedStatus(inv.input.dueDate)
               ELSE inv.currentStatus]_vars

PaymentsOf(table, i) == {p \in table : p.invoiceId = i}

\* The step commits a change of invoice i from paid to pending or overdue.
CommitsOutOfPaid(i) ==
    /\ UpdateCommits /\ inv.invoiceId = i
    /\ invoices[i].status = "paid"
    /\ invoices'[i].status \in {"pending", "overdue"}

\* C18: a step of updateInvoice that commits a change from paid to pending or
\* overdue leaves the invoice without payment records; every other step of
\* updateInvoice, a rollback included, leaves the payment records as they are.
C18_PaymentsDeletedOnRevert ==
    [][\A i \in DOMAIN invoices :
          /\ CommitsOutOfPaid(i) => PaymentsOf(payments', i) = {}
          /\ (inv'.op = "update" /\ ~CommitsOutOfPaid(i))
                => PaymentsOf(payments', i) = PaymentsOf(payments, i)]_vars

\* A paid invoice with a payment has been set back by a committed update, and
\* its payment is gone.
C18_Witness ==
    /\ inv.op = "update" /\ inv.pc = "done" /\ inv.error = NoName
    /\ inv.currentStatus = "paid" /\ inv.paymentsDeleted
    /\ invoices[inv.invoiceId].status \in {"pending", "overdue"}
    /\ PaymentsOf(payments, inv.invoiceId) = {}

\* The status a read would return if it were recomputed from the due date.
StatusOnRead(row) ==
    IF row.status \in {"pending", "overdue"} THEN DerivedStatus(row.dueDate) ELSE row.status

\* C19: getInvoiceById and getInvoicesByUserId return the pending/overdue
\* status recomputed from the due date and today's date.
C19_StatusRecomputedOnRead ==
    [][(ops' = ops + 1 /\ inv'.error = NoName)
         => /\ inv'.op = "get"
                 => inv'.response.status = StatusOnRead(invoices[inv'.invoiceId])
            /\ inv'.op = "list"
                 => \A r \in inv'.response : r.status = StatusOnRead(invoices[r.id])]_vars

\* The stores a call on somebody else's invoice must leave alone.
StoresUnchanged == UNCHANGED <<invoices, items, payments, reminders, blobs>>

\* Invoice i exists and belongs to somebody other than u.
OthersInvoice(i, u) == i \in DOMAIN invoices /\ invoices[i].userId # u

\* Invoice i is not user u's: it belongs to another owner or does not exist.
NotOwn(i, u) == i \notin DOMAIN invoices \/ invoices[i].userId # u

\* C20: a call of getInvoiceById, updateInvoice, updateInvoicePdfFilename or
\* deleteInvoice that names an invoice of another owner ends as a call that
\* names no existing invoice does: with 'Invoice not found' and 404 when the
\* store answers, and with nothing changed in the stores.
C20_OthersInvoiceIsNotFound ==
    [][(ops' = ops + 1 /\ faults' = faults)
         => /\ (inv'.op \in {"get", "update", "patchPdf"}
                   /\ NotOwn(inv'.invoiceId, inv'.userId))
                 => /\ inv'.pc = "done" /\ inv'.error = "Invoice not found"
                    /\ inv'.statusCode = 404
                    /\ StoresUnchanged
            /\ (del'.pc # "idle" /\ NotOwn(del'.invoiceId, del'.userId))
                 => /\ del'.pc = "done" /\ del'.error = "Invoice not found"
                    /\ del'.statusCode = 404
                    /\ StoresUnchanged]_vars

\* A call has named an existing invoice of another owner and was told that it
\* was not found.
C20_Witness ==
    \/ /\ inv.op \in {"get", "update", "patchPdf"} /\ inv.pc = "done"
       /\ OthersInvoice(inv.invoiceId, inv.userId)
       /\ inv.error = "Invoice not found"
    \/ /\ del.pc = "done" /\ OthersInvoice(del.invoiceId, del.userId)
       /\ del.error = "Invoice not found"


\* The call of createInvoice has returned its invoice.
CreateSucceeded ==
    inv.op = "create" /\ inv.pc \in {"createReminders", "done"} /\ inv.error = NoName

\* C21: while createInvoice runs and after it has failed, neither the header
\* nor a line item of the call is in the invoices table; after it has
\* succeeded the header is there with all the line items passed; no step of
\* createInvoice touches another invoice.
C21_CreateIsAtomic ==
    /\ [](inv.op = "create" =>
            IF CreateSucceeded
            THEN /\ inv.invoiceId \in DOMAIN invoices
                 /\ invoices[inv.invoiceId].items = inv.input.items
            ELSE inv.invoiceId \notin DOMAIN invoices)
    /\ [][inv'.op = "create" =>
            \A i \in DOMAIN invoices : i \in DOMAIN invoices' /\ invoices'[i] = invoices[i]]_vars

\* createInvoice has failed on its second line item, after the header and the
\* first line item were inserted.
C21_Witness ==
    /\ inv.op = "create" /\ inv.pc = "done" /\ inv.error = "Item not found"
    /\ Len(inv.work.items) = 1
    /\ inv.invoiceId \notin DOMAIN invoices


\* The store call deleteInvoice awaits in this step fails.
DeleteStepFails(pc) == del.pc = pc /\ faults' = faults + 1

\* C22: deleteInvoice issues the artifact delete only after the row delete
\* succeeded; a failed artifact delete ends the call without an error and the
\* row stays deleted; a failed row delete fails the call and leaves the row and
\* the artifact store as they are.
C22_RowBeforeArtifact ==
    /\ [](\A k \in 1..Len(del.calls) :
             del.calls[k] \in {"deleteBlob:ok", "deleteBlob:fail"}
                => k > 1 /\ del.calls[k - 1] = "deleteRow:ok")
    /\ [](del.pc = "deleteBlob" => del.invoiceId \notin DOMAIN invoices)
    /\ [][DeleteStepFails("deleteBlob")
            => /\ del'.pc = "done" /\ del'.error = NoName
               /\ del.invoiceId \notin DOMAIN invoices']_vars
    /\ [][DeleteStepFails("deleteRow")
            => /\ del'.pc = "done" /\ del'.error = "Failed to delete invoice"
               /\ UNCHANGED <<blobs, invoices>>]_vars

\* deleteInvoice has ended without an error although the delete of an artifact
\* failed: the row is gone, the artifact is still in the store.
C22_Witness ==
    /\ del.pc = "done" /\ del.error = NoName
    /\ Called(del, "deleteBlob:fail")
    /\ del.invoiceId \notin DOMAIN invoices
    /\ BlobPath(InvoicePrefix, del.userId, del.fileName) \in blobs


\* The steps of createInvoice and updateInvoice between BEGIN and COMMIT or
\* ROLLBACK.
TxSteps ==
    {"insertHeader", "insertItem", "commitCreate",
     "deletePayments", "checks", "update", "autoStatus", "reminders", "commit"}

\* A transaction of the call in flight is open.
TxOpen == inv.pc \in TxSteps \/ run.tx

\* The call in flight is at a call of the artifact store: an upload, a
\* download (the logo, inside the renderer) or a delete.
ArtifactCallPending ==
    \/ req.pc \in {"upload", "deleteOld", "rollback"}
    \/ run.pc \in {"render", "upload"}
    \/ del.pc = "deleteBlob"

C24_ReleasedExactlyOnce == run.pdfReleases <= 1


\* The artifact an invoice points at, or '{number}.pdf' when it names none, is
\* not in the artifact store.
InvoiceArtifactMissing(row) ==
    ~Exists(blobs, BlobPath(InvoicePrefix, row.userId,
                            IF Truthy(row.invoiceFileName) THEN row.invoiceFileName
                            ELSE TemplateText(row.invoiceNumber) \o ".pdf"))

\* A read path is called and the record store answers.
ReadAnswered(op) == ops' = ops + 1 /\ faults' = faults /\ inv'.op = op

\* C25: a read path called on a record of the caller whose artifact is missing
\* from the artifact store ends with status 404, and sendInvoiceEmail sends no
\* email for it.
C25_MissingArtifactIsNotFound ==
    [][/\ (/\ ReadAnswered("clientPdf")
           /\ inv'.invoiceId \in DOMAIN invoices
           /\ invoices[inv'.invoiceId].clientId = inv'.userId
           /\ InvoiceArtifactMissing(invoices[inv'.invoiceId]))
          => inv'.statusCode = 404
       /\ (/\ ReadAnswered("sendEmail")
           /\ inv'.invoiceId \in DOMAIN invoices
           /\ invoices[inv'.invoiceId].userId = inv'.userId
           /\ InvoiceArtifactMissing(invoices[inv'.invoiceId]))
          => inv'.statusCode = 404
       /\ (inv'.mailed /\ ~inv.mailed)
          => ~InvoiceArtifactMissing(invoices[inv.invoiceId])
       /\ (/\ ReadAnswered("expensePdf")
           /\ expenses[inv'.invoiceId].userId = inv'.userId
           /\ ~Exists(blobs, BlobPath(PdfPrefix, inv'.userId,
                                      ExpenseDownloadName(expenses[inv'.invoiceId],
                                                          inv'.invoiceId))))
          => inv'.statusCode = 404
       /\ (/\ ReadAnswered("expenseAttachment")
           /\ expenses[inv'.invoiceId].userId = inv'.userId
           /\ ~Exists(blobs, BlobPath(AttachmentPrefix, inv'.userId,
                                      expenses[inv'.invoiceId].attachmentFileName)))
          => inv'.statusCode = 404]_vars

\* The fixed messages of the 500 errors of sendInvoiceEmail.
GenericMessages == {"Internal server error", "Failed to send email"}

\* C26: a failure of sendInvoiceEmail that is reported with status 500 carries
\* one of the fixed generic messages, whatever the text of the underlying
\* error.
C26_GenericFailureMessage ==
    (inv.op = "sendEmail" /\ inv.statusCode = 500) => inv.error \in GenericMessages


\* A client portal read has returned data.
PortalReturned(op) == inv.op = op /\ inv.pc = "done" /\ inv.error = NoName

\* A client portal read names an invoice that is not the client's: it belongs
\* to another client or does not exist.
NotClients(i, c) == i \notin DOMAIN invoices \/ invoices[i].clientId # c

\* C27: what a client portal read returns belongs to invoices of the client
\* the call is made for: the invoices listed, the invoice read, the line items
\* and the PDF; a read that names another client's invoice ends as one that
\* names no invoice, with 'Invoice not found or access denied' and 404.
C27_PortalReadsOwnInvoicesOnly ==
    /\ [](PortalReturned("clientList")
             => \A r \in inv.response : r.clientId = inv.userId)
    /\ [](PortalReturned("clientGet")
             => inv.response.id = inv.invoiceId /\ inv.response.clientId = inv.userId)
    /\ [](PortalReturned("clientItems")
             => \A line \in inv.response : invoices[line.invoiceId].clientId = inv.userId)
    /\ [](PortalReturned("clientPdf")
             => /\ inv.response.clientId = inv.userId
                /\ inv.response.pdfOf \in DOMAIN invoices
                      => invoices[inv.response.pdfOf].clientId = inv.userId)
    /\ [][(/\ ops' = ops + 1 /\ faults' = faults
           /\ inv'.op \in {"clientGet", "clientItems", "clientPdf"}
           /\ NotClients(inv'.invoiceId, inv'.userId))
          => /\ inv'.pc = "done" /\ inv'.statusCode = 404
             /\ inv'.error = "Invoice not found or access denied"]_vars


\* The awaited calls of one client of the batch, in the order of the code, as
\* they are logged when they succeed.
OkSteps == <<"createInvoice:ok", "render:ok", "upload:ok", "patch:ok">>

\* How the k-th call is logged when it does not succeed.
FailedStep(k) ==
    CASE k = 1 -> {"createInvoice:fail"}
      [] k = 2 -> {"render:fail", "render:hang"}
      [] k = 3 -> {"upload:fail"}
      [] k = 4 -> {"patch:fail"}

IsStep(c) == c \notin {"created", "failed"}

\* The calls made for the client in hand, without the closing count.
StepsOf(calls) == SelectSeq(calls, IsStep)

\* A log is in order when it is a run of the steps from the first on, each
\* one completed before the next, of which only the last may have failed.
InOrder(steps) ==
    \E k \in 0..Len(OkSteps) :
       \/ steps = SubSeq(OkSteps, 1, k)
       \/ /\ k >= 1
          /\ \E f \in FailedStep(k) : steps = Append(SubSeq(OkSteps, 1, k - 1), f)

\* The client in hand is finished: it has been counted, or none was started.
ClientFinished(r) ==
    r.calls = <<>> \/ r.calls[Len(r.calls)] \in {"created", "failed"}

\* C28: for each (milestone, client) of the batch the calls are made in the
\* order insert, render, upload, patch, each after the one before it has
\* completed: the render starts with the record committed, the upload with the
\* render done, the patch with the object uploaded; and a client is begun only
\* when the one before it is finished.
C28_StepsInOrder ==
    /\ [](InOrder(StepsOf(run.calls)))
    /\ [](run.pc \in {"render", "upload", "patch"}
             => /\ RowVisible(invoices, run.invoice, Milestone(run).userId)
                /\ invoices[run.invoice].clientId = ProjectClient(run)
                /\ ~run.tx)
    /\ [](run.pc = "render" => run.calls = SubSeq(OkSteps, 1, 1))
    /\ [](run.pc = "upload" => run.calls = SubSeq(OkSteps, 1, 2))
    /\ [](run.pc = "patch"
             => run.calls = SubSeq(OkSteps, 1, 3) /\ Exists(blobs, run.blobPath))
    /\ [][run'.calls # run.calls /\ Len(run'.calls) = 1 /\ run.pc = "createInvoice"
             => ClientFinished(run)]_vars

\* The second client of a milestone has reached the patch.
C28_Witness == run.pc = "patch" /\ run.ci = 2


\* How a failed render, upload or patch is logged.
PdfFailures == {"render:fail", "render:hang", "upload:fail", "patch:fail"}

\* The step of the batch ends the render, the upload or the patch in failure.
PdfStepFails ==
    /\ run.pc \in {"render", "upload", "patch"}
    /\ \E k \in 1..Len(run'.calls) : run'.calls[k] \in PdfFailures

\* The artifact file name of a row is empty, or an object is stored under it.
EmptyOrUploaded(table, store, i) ==
    \/ table[i].invoiceFileName = NoName
    \/ Exists(store, BlobPath(InvoicePrefix, table[i].userId, table[i].invoiceFileName))

\* The step inserts row i or changes its artifact file name.
Written(i) ==
    \/ i \notin DOMAIN invoices
    \/ invoices'[i].invoiceFileName # invoices[i].invoiceFileName

\* C29: when the render, the upload or the patch of the file name fails for a
\* client of the batch, the invoice inserted for it stays in the invoices
\* table, with an empty artifact file name; and whenever the batch inserts an
\* invoice or sets its file name, the name is empty or an object is stored
\* under it.
C29_RecordKeptOnPdfFailure ==
    /\ [][PdfStepFails
             => /\ invoices' = invoices
                /\ run.invoice \in DOMAIN invoices'
                /\ invoices'[run.invoice].invoiceFileName = NoName]_vars
    /\ [][\A i \in DOMAIN invoices' :
             Written(i) => EmptyOrUploaded(invoices', blobs', i)]_vars
    /\ [](run.pc \in {"render", "upload", "patch"}
             => invoices[run.invoice].invoiceFileName = NoName)

\* An upload has failed for the second client while the first client's invoice
\* has its PDF: both rows are in the table.
C29_Witness ==
    /\ run.pc # "idle" /\ run.ci = 2 /\ run.calls # <<>>
    /\ \E k \in 1..Len(run.calls) : run.calls[k] = "upload:fail"
    /\ run.invoice \in DOMAIN invoices
    /\ invoices[run.invoice].invoiceFileName = NoName
    /\ \E i \in DOMAIN invoices :
          invoices[i].invoiceFileName # NoName /\ EmptyOrUploaded(invoices, blobs, i)


\* processMilestoneInvoices has returned its result.
ResultReturned == run.pc = "done" /\ ~run.thrown

\* The invoices the run has committed: the ids handed out since it started
\* (run.firstId is the next id of the sequence when the run selected its
\* milestones).
CommittedByRun == run.firstId .. (nextInvoiceId - 1)

SelectedIds == { run.selected[k].id : k \in 1..Len(run.selected) }

\* C30: in the result processMilestoneInvoices returns, processed is the
\* number of milestones the run selected, created the number of invoices it
\* committed, failed the number of entries of errors, and each entry of errors
\* names a milestone the run selected.
C30_ResultCounts ==
    ResultReturned
       => /\ run.result.processed = Len(run.selected)
          /\ run.result.created = Cardinality(CommittedByRun)
          /\ CommittedByRun \subseteq DOMAIN invoices
          /\ run.result.failed = Len(run.result.errors)
          /\ \A k \in 1..Len(run.result.errors) :
                run.result.errors[k].milestoneId \in SelectedIds

\* A run has returned a result that counts invoices created, among them one
\* whose PDF failed, and failures.
C30_Witness ==
    /\ ResultReturned
    /\ run.result.created >= 2
    /\ run.result.failed >= 1
    /\ \E i \in CommittedByRun : invoices[i].invoiceFileName = NoName


\* Two names are the same up to the case of their letters.
EqualIgnoringCase(a, b) == ToLowerCase(a) = ToLowerCase(b)

\* The step is a call of getOrCreateItemByName that returns an id.
ItemResolved == run.pc = "getItem" /\ run'.pc = "createInvoice"

\* The item with the given id.
ItemById(table, id) == CHOOSE it \in table : it.id = id

\* C31: getOrCreateItemByName adds an item only when the owner has none whose
\* name equals the service type ignoring case, and then adds exactly that one;
\* otherwise it returns the id of such an item and the items stay as they
\* were.  So no owner ever has two items whose names differ only in case, and
\* the item the batch bills a milestone with is the owner's item of that name.
C31_ItemResolvedIgnoringCase ==
    /\ [][ItemResolved =>
            LET u == Milestone(run).userId
                name == Milestone(run).serviceType
            IN /\ \E it \in items' : it.id = run'.itemId
               /\ ItemById(items', run'.itemId).userId = u
               /\ EqualIgnoringCase(ItemById(items', run'.itemId).name, name)
               /\ IF \E it \in items : it.userId = u /\ EqualIgnoringCase(it.name, name)
                  THEN items' = items
                  ELSE /\ items \subseteq items'
                       /\ Cardinality(items') = Cardinality(items) + 1]_vars
    /\ [][run.pc = "getItem" /\ run'.pc # "createInvoice" => items' = items]_vars
    /\ [](\A a \in items, b \in items :
             a.userId = b.userId /\ EqualIgnoringCase(a.name, b.name) => a = b)

\* The milestone of service type 'design' is billed with the item 'Design',
\* the only item of the table.
C31_Witness ==
    /\ run.pc = "createInvoice"
    /\ Milestone(run).serviceType = "design"
    /\ Cardinality(items) = 1
    /\ ItemById(items, run.itemId).name = "Design"


\* The step is a successful createInvoice of the batch.
BatchInvoiceInserted == run.pc = "createInvoice" /\ nextInvoiceId' = nextInvoiceId + 1

\* The step attempts the invoice of the client in hand.
BatchInvoiceAttempted == run.pc = "createInvoice" /\ run'.calls # run.calls

\* C32: for each due milestone the batch attempts one invoice for each client
\* of the project, in turn, and every invoice it inserts is the owner's, is
\* the client's, is dated and due on the milestone date, has one line of
\* quantity 1 at the milestone amount, subtotal and total of that amount, no
\* tax and payment terms 'full'.
C32_OneInvoicePerClientFromMilestone ==
    /\ [][BatchInvoiceInserted =>
            LET row == invoices'[nextInvoiceId]
                m == Milestone(run)
            IN /\ row.userId = m.userId
               /\ row.clientId = ProjectClient(run)
               /\ row.invoiceDate = m.milestoneDate
               /\ row.dueDate = m.milestoneDate
               /\ row.items = << [itemsId |-> run.itemId, quantity |-> 1,
                                  unitPrice |-> m.amount] >>
               /\ row.subTotalAmount = m.amount
               /\ row.totalAmount = m.amount
               /\ row.gst = 0
               /\ row.paymentTerms = "full"]_vars
    /\ [][BatchInvoiceAttempted =>
            /\ run.clients = ProjectClients(Milestone(run).projectId)
            /\ \/ run'.pc = "render" /\ run'.ci = run.ci
               \/ run'.pc = "createInvoice" /\ run'.ci = run.ci + 1
               \/ run'.pc = "updateStatus" /\ run.ci = Len(run.clients)]_vars
    /\ [][run.pc = "getItem" /\ run'.pc = "createInvoice" => run'.ci = 1]_vars


InvoiceStatuses == {"pending", "overdue", "paid"}

\* The call in r is an updateInvoice that passes a status outside the three.
PassesOtherStatus(r) ==
    /\ r.op = "update"
    /\ r.input.status # Undefined
    /\ r.input.status \notin InvoiceStatuses

InvalidStatusMessage == "Invalid status. Must be one of: paid, pending, overdue"

GoodToken(t) ==
    /\ t.form = "valid" /\ ~t.expired /\ t.type = "CLIENT"
    /\ t.clientId # 0 /\ t.email # NoName /\ t.hasScope

\* A request has gone through authenticateClientToken with a token.
TokenChecked == portalAuth.statusCode \in {200, 403}

\* C39: verifyClientToken returns the payload exactly for the tokens that are
\* validly signed, unexpired, of type 'CLIENT' and carry clientId, email and
\* scope; every other token is rejected, an expired one with 'Client token
\* has expired', a malformed or wrongly signed one with 'Invalid client
\* token', one of another type with 'Token is not a client token'.
C39_TokenErrorsDistinguished ==
    TokenChecked =>
       LET t == portalAuth.token
       IN /\ portalAuth.statusCode = 200 <=> GoodToken(t)
          /\ portalAuth.statusCode = 200 =>
                portalAuth.clientId = t.clientId /\ portalAuth.email = t.email
          /\ portalAuth.statusCode = 403 => portalAuth.error # NoName
          /\ t.form # "valid" => portalAuth.error = "Invalid client token"
          /\ t.form = "valid" /\ t.expired =>
                portalAuth.error = "Client token has expired"
          /\ t.form = "valid" /\ ~t.expired /\ t.type # "CLIENT" =>
                portalAuth.error = "Token is not a client token"


\* C34: no more than MAX_OTP_ATTEMPTS codes are ever compared with a stored
\* OTP, whatever the interleaving of the verify-otp requests; and a request
\* that reads an OTP with MAX_OTP_ATTEMPTS wrong codes recorded compares
\* nothing and ends in an error.
C34_AtMostMaxAttemptsCompared ==
    /\ [](\A i \in DOMAIN otps : otps[i].compared <= MAX_OTP_ATTEMPTS)
    /\ [][\A q \in VerifyProcs :
             verify[q].pc = "selectOtp" /\ verify'[q].pc = "compare"
                => otps[verify'[q].otpId].attempts < MAX_OTP_ATTEMPTS]_vars

\* C35: among all the verify-otp requests made for one stored OTP, in any
\* interleaving, at most one returns success.
C35_OtpAuthenticatesOnce == \A i \in DOMAIN otps : otps[i].verified <= 1

\* The OTPs of a client that are neither used nor expired.
LiveOtps(c) == {i \in DOMAIN otps : otps[i].clientId = c /\ ~otps[i].isUsed /\ ~otps[i].expired}

\* The step is a successful verification of OTP i.
VerifiedNow(i) == otps'[i].verified = otps[i].verified + 1

\* C36: a client never has two OTPs that are both unused and unexpired, in
\* any interleaving of logins and verify-otp requests; and an OTP is never
\* verified successfully once a newer OTP of the client has been stored.
C36_OneLiveOtpPerClient ==
    /\ [](\A c \in AuthClients : Cardinality(LiveOtps(c)) <= 1)
    /\ [][\A i \in DOMAIN otps :
             VerifiedNow(i) =>
                ~ \E j \in DOMAIN otps : j > i /\ otps[j].clientId = otps[i].clientId]_vars

TokensIssued(log) == {e \in log : e[1] = "token"}

\* C37: a token is issued only by a verify-otp request whose verifyOTP
\* succeeded for the same client, on an OTP that generateOTP stored for that
\* client in a login that had passed the password check for it; a login
\* request issues no token, and the sending of the mail, failed or not,
\* leaves the stored OTPs as they are.
C37_TokenOnlyAfterTwoSteps ==
    /\ [](\A c \in AuthClients \cup {0} :
             /\ <<"token", c>> \in authLog => <<"verified", c>> \in authLog
             /\ <<"verified", c>> \in authLog => <<"otp", c>> \in authLog
             /\ <<"otp", c>> \in authLog => <<"password", c>> \in authLog)
    /\ [][\A q \in VerifyProcs :
             verify'[q].token /\ ~verify[q].token
                => /\ verify[q].pc = "lastLogin"
                   /\ <<"verified", verify[q].clientId>> \in authLog
                   /\ otps[verify[q].otpId].clientId = verify[q].clientId
                   /\ otps[verify[q].otpId].verified >= 1]_vars
    /\ [][\A q \in VerifyProcs :
             verify[q].pc # "lastLogin" /\ verify'[q].pc = "lastLogin"
                => /\ verify[q].otpId \in DOMAIN otps
                   /\ otps[verify[q].otpId].clientId = verify[q].clientId
                   /\ ComparePassword(verify[q].code, otps[verify[q].otpId])
                   /\ <<"otp", verify[q].clientId>> \in authLog]_vars
    /\ [][Len(otps') > Len(otps)
             => \E p \in LoginProcs :
                   /\ login[p].pc = "insert"
                   /\ otps'[Len(otps')].clientId = login[p].clientId
                   /\ <<"password", login[p].clientId>> \in authLog]_vars
    /\ [][login' # login => TokensIssued(authLog') = TokensIssued(authLog)]_vars
    /\ [][\A p \in LoginProcs :
             login[p].pc = "sendMail" /\ login'[p].pc = "done"
                => otps' = otps /\ login'[p].statusCode = 200]_vars

\* Client 2 holds a token for a login whose OTP mail could not be sent.
C37_Witness ==
    /\ verify[1].token /\ verify[1].clientId = 2
    /\ login[1].pc = "done" /\ login[1].clientId = 2 /\ ~login[1].mailed
    /\ login[1].code = verify[1].code

\* The invoices created from milestone m for client c.
InvoicesOf(m, c) ==
    {i \in DOMAIN invoices : m \in SourceMilestones(invoices[i]) /\ invoices[i].clientId = c}

\* C38: when a second run starts while the first is in flight, every due
\* milestone is processed by one of them only: no (milestone, client) pair
\* ends up with more than one invoice record across the two runs.
C38_OverlappingRunsCreateOnce ==
    \A m \in MilestoneIds, c \in ClientIds : Cardinality(InvoicesOf(m, c)) <= 1

====
